---- MODULE Spec2Model ----
(***************************************************************************)
(* Shadow-repository checkpoint engine (ShadowCheckpointService) and the   *)
(* checkpoint lifecycle manager (CheckpointServiceManager); the exclude    *)
(* file writer and the branch deletion of the engine in detail; the loop   *)
(* task service (LoopService).                                             *)
(*                                                                         *)
(* The code is single-threaded cooperative JavaScript: an async function   *)
(* runs without interruption up to its next await.  Every action below is  *)
(* one such uninterrupted stretch of one call.                             *)
(***************************************************************************)
EXTENDS Integers, Sequences, FiniteSets, TLC

\* ------------------------------------------------------------------ bounds

\* Top-level calls made on the manager in one behaviour.
MaxCalls == 3
\* Distinct throwing sites in one dispose() call.
MaxDisposeFaults == 2
\* Steps of one behaviour of an engine that draw on its budget: a dispose, a
\* saveCheckpoint, restoreCheckpoint or getDiff call on an engine that has its
\* handle, a change to a workspace file, a failing repository or file-system
\* operation.  (initShadowGit and the calls that fail at once are free.)
MaxSteps == 4

\* ------------------------------------------------------------ common values

Engines == {"e1", "e2"}
TaskIds == {"t1", "t2"}
None == "none"
NoHash == 0
NoWorktree == "undefined"

\* Workspace files: Tracked are those the exclude patterns let through,
\* Excluded those they match.  A content of 0 is an absent file.
Tracked == {"a", "b"}
Excluded == {"x"}
Files == Tracked \cup Excluded
Contents == 0..2
Absent == 0

\* core.worktree values: the engine's workspaceDir, or another directory
WorkspaceDir == "ws"
OtherDir == "other"

\* The call slots of an engine: one call at a time in slot 1, a second,
\* overlapping call in slot 2.
Slots == {1, 2}

\* stageAll and restoreCheckpoint: const maxRetries = 3
MaxRetries == 3

\* ------------------------------------------------------------------ state

VARIABLES
    \* CheckpointServiceManager
    activeServices,   \* Map<taskId, service>: TaskIds -> Engines \cup {None}
    isShuttingDown,   \* the shutdown flag
    services,         \* the in-memory state of every engine object
    disposeCalls,     \* history: how often dispose() ran on each engine
    pending,          \* suspended continuations (each at its await)
    dallFrames,       \* disposeAll calls suspended at Promise.allSettled
    nCalls,           \* top-level calls made so far
    lastReplace,      \* history: the last registerService that replaced an engine
    mgrEvent,         \* history: what the last step did
    \* ShadowCheckpointService (one instance)
    git,              \* this.git is set (isInitialized)
    _checkpoints,     \* this._checkpoints
    _baseHash,        \* this._baseHash
    shadowGitConfigWorktree,  \* the cached core.worktree
    listeners,        \* the number of subscribed listeners
    workspaceDir,     \* this.workspaceDir
    \* the shadow repository on disk
    dirExists,        \* checkpointsDir exists
    repoExists,       \* checkpointsDir/.git exists
    commits,          \* the revisions: revision h is commits[h], a tree
    head,             \* HEAD
    index,            \* the staging area, a tree
    configWorktree,   \* core.worktree as recorded in the repository
    excludeWritten,   \* info/exclude holds the current pattern list
    \* the workspace
    workspace,        \* the content of every file
    nestedRepo,       \* the workspace holds a nested .git/HEAD
    \* the calls
    frames,           \* per slot: the call running in it, at its await
    slots,            \* the slots in use
    nSteps,           \* budgeted steps taken so far (see MaxSteps)
    returned          \* history: the revisions saveCheckpoint returned

mgrVars == <<activeServices, isShuttingDown, services, disposeCalls, pending,
             dallFrames, nCalls, lastReplace, mgrEvent>>

objVars == <<git, _checkpoints, _baseHash, shadowGitConfigWorktree, listeners,
             workspaceDir>>

repoVars == <<dirExists, repoExists, commits, head, index, configWorktree,
              excludeWritten>>

engVars == <<objVars, repoVars, workspace, nestedRepo, frames, slots, nSteps,
             returned>>

VARIABLES
    \* writeExcludeFile and the two files it works on
    excludeFile,      \* the content of info/exclude
    tempFile,         \* the content of info/exclude.tmp
    writeFrame        \* the writeExcludeFile call, at its await

VARIABLES
    \* deleteBranch and the repository it works on
    branches,         \* the local branches
    currentBranch,    \* the branch HEAD is on
    coreWorktree,     \* core.worktree of that repository
    delFrame          \* the deleteBranch call, at its await

VARIABLES
    \* LoopService
    currentTask,      \* this.currentTask: a task object, or NoTask
    isProcessing,     \* this.isProcessing
    shouldCancel,     \* this.shouldCancel
    subTasks,         \* per task object: its subTasks array (sub-task objects)
    status,           \* per sub-task object: its status
    chains,           \* per startLoopTask call: where it is suspended
    sent,             \* history: the progress updates the last step sent
    cancelledTasks    \* history: the task objects cancelTask was applied to

exclVars == <<excludeFile, tempFile, writeFrame>>

branchVars == <<branches, currentBranch, coreWorktree, delFrame>>

loopVars == <<currentTask, isProcessing, shouldCancel, subTasks, status, chains,
              sent, cancelledTasks>>

extVars == <<exclVars, branchVars, loopVars>>

\* Everything but the exclude file writer.
notExclVars == <<mgrVars, engVars, branchVars, loopVars>>

\* Everything but the branch deletion.
notBranchVars == <<mgrVars, engVars, exclVars, loopVars>>

\* Everything but the loop service.
notLoopVars == <<mgrVars, engVars, exclVars, branchVars>>

vars == <<mgrVars, engVars, extVars>>

\* ------------------------------------------------------- engine: dispose()

\* The places of dispose() that can throw: the caller-supplied log function at
\* each of its call sites, and removeAllListeners (RML).
DisposeSites == {"L469", "L477", "L479", "RML", "L488", "L490", "L500", "L502",
                 "L507", "L510"}

DisposeFaults == {F \in SUBSET DisposeSites : Cardinality(F) <= MaxDisposeFaults}

\* lines 512-515: the state reset of the outer catch block
DisposeReset(eng) ==
    [eng EXCEPT !.git = FALSE, !._checkpoints = <<>>, !._baseHash = NoHash,
                !.shadowGitConfigWorktree = NoWorktree]

\* lines 508-517: the outer catch block; its own log call comes first
DisposeCatch(eng, F) ==
    IF "L510" \in F
    THEN [eng |-> eng, threw |-> TRUE]
    ELSE [eng |-> DisposeReset(eng), threw |-> TRUE]

\* lines 495-507: reset the internal state, final log
DisposeState(eng, F) ==
    LET e3 == [eng EXCEPT !._checkpoints = <<>>, !._baseHash = NoHash,
                          !.shadowGitConfigWorktree = NoWorktree]
    IN  IF "L500" \in F /\ "L502" \in F THEN DisposeCatch(e3, F)
        ELSE IF "L507" \in F THEN DisposeCatch(e3, F)
        ELSE [eng |-> e3, threw |-> FALSE]

\* lines 485-493: remove all listeners
DisposeListeners(eng, F) ==
    LET removed == [eng EXCEPT !.listeners = 0]
    IN  IF "RML" \in F
        THEN IF "L490" \in F THEN DisposeCatch(eng, F) ELSE DisposeState(eng, F)
        ELSE IF "L488" \in F /\ "L490" \in F
             THEN DisposeCatch(removed, F)
             ELSE DisposeState(removed, F)

\* lines 471-483: drop the SimpleGit handle
DisposeGit(eng, F) ==
    IF eng.git
    THEN LET e1 == [eng EXCEPT !.git = FALSE]
         IN  IF "L477" \in F /\ "L479" \in F
             THEN DisposeCatch(e1, F)
             ELSE DisposeListeners(e1, F)
    ELSE DisposeListeners(eng, F)

\* dispose(): it has no await, so the whole body runs inside the call and the
\* promise it returns is already settled (fulfilled, or rejected when threw).
Dispose(eng, F) ==
    IF "L469" \in F THEN DisposeCatch(eng, F) ELSE DisposeGit(eng, F)

\* The distinct results dispose() can have on an engine.
DisposeOutcomes(eng) == {Dispose(eng, F) : F \in DisposeFaults}

\* ------------------------------------------------ CheckpointServiceManager

NoCalls == [e \in Engines |-> 0]

MgrEvent(op, id, svc, old, targets, threw, base) ==
    [op |-> op, id |-> id, svc |-> svc, old |-> old, targets |-> targets,
     threw |-> threw, base |-> base]

NoReplace ==
    [id |-> None, old |-> None, new |-> None, oldCalls |-> 0, newCalls |-> 0,
     oldThrew |-> FALSE]

KeepServices(reg) == reg

\* activeServices.clear() (lines 130 and 147)
ClearServices(reg) == [t \in TaskIds |-> None]

\* service.on("error", listener) (lines 43-47)
OnError(eng) == [eng EXCEPT !.listeners = @ + 1]

RegistrationNeverSuppressed == FALSE

\* line 28: registerService returns at once while a bulk disposal is in flight
RegistrationSuppressed == isShuttingDown

\* unregisterService up to its await (lines 53-61): look the engine up, run
\* dispose() on it, suspend.  The continuation (lines 62-69) runs later.
UnregisterServiceSync(id, reg, svcs, calls, pend, cid, out) ==
    LET s == reg[id]
    IN  IF s = None
        THEN [services |-> svcs, disposeCalls |-> calls, pending |-> pend]
        ELSE [services |-> [svcs EXCEPT ![s] = out.eng],
              disposeCalls |-> [calls EXCEPT ![s] = @ + 1],
              pending |-> pend \cup {[kind |-> "unregister", cid |-> cid, id |-> id,
                                       svc |-> s, threw |-> out.threw,
                                       base |-> calls]}]

RegisterWithoutCleanup(id, s, out) ==
    /\ activeServices' = [activeServices EXCEPT ![id] = s]
    /\ services' = [services EXCEPT ![s] = OnError(@)]
    /\ nCalls' = nCalls + 1
    /\ lastReplace' =
           IF activeServices[id] = None THEN NoReplace
           ELSE [id |-> id, old |-> activeServices[id], new |-> s,
                 oldCalls |-> disposeCalls[activeServices[id]],
                 newCalls |-> disposeCalls[s], oldThrew |-> FALSE]
    /\ mgrEvent' = MgrEvent("register", id, s, activeServices[id], {}, {}, NoCalls)
    /\ UNCHANGED <<isShuttingDown, dallFrames, disposeCalls, pending, engVars, extVars>>

\* registerService past the shutdown check (lines 33-47): the old engine of the
\* identifier, if any, goes through unregisterService, which is not awaited;
\* then the new engine is stored and gets an "error" listener.
RegisterStore(id, s, out) ==
    LET old == activeServices[id]
        u   == UnregisterServiceSync(id, activeServices, services, disposeCalls,
                                     pending, nCalls + 1, out)
    IN  /\ activeServices' = [activeServices EXCEPT ![id] = s]
        /\ services' = [u.services EXCEPT ![s] = OnError(@)]
        /\ disposeCalls' = u.disposeCalls
        /\ pending' = u.pending
        /\ nCalls' = nCalls + 1
        /\ lastReplace' =
               IF old = None THEN NoReplace
               ELSE [id |-> id, old |-> old, new |-> s,
                     oldCalls |-> disposeCalls[old],
                     newCalls |-> u.disposeCalls[s], oldThrew |-> out.threw]
        /\ mgrEvent' = MgrEvent("register", id, s, old, {}, {}, NoCalls)
        /\ UNCHANGED <<isShuttingDown, dallFrames, engVars, extVars>>

\* registerService (lines 27-48), entirely synchronous.
RegisterService ==
    /\ nCalls < MaxCalls
    /\ \E id \in TaskIds, s \in Engines :
        IF RegistrationSuppressed
        THEN /\ mgrEvent' = MgrEvent("registerIgnored", id, s, None, {}, {}, NoCalls)
             /\ nCalls' = nCalls + 1
             /\ lastReplace' = NoReplace
             /\ UNCHANGED <<activeServices, isShuttingDown, services, disposeCalls,
                            pending, dallFrames, engVars, extVars>>
        ELSE \E out \in DisposeOutcomes(services[IF activeServices[id] = None
                                                  THEN s ELSE activeServices[id]]) :
                 RegisterStore(id, s, out)

\* unregisterService called by a client: lines 53-61 (or the return of line 56).
UnregisterService ==
    /\ nCalls < MaxCalls
    /\ \E id \in TaskIds :
        \E out \in DisposeOutcomes(services[IF activeServices[id] = None
                                             THEN CHOOSE e \in Engines : TRUE
                                             ELSE activeServices[id]]) :
        LET u == UnregisterServiceSync(id, activeServices, services, disposeCalls,
                                       pending, nCalls + 1, out)
        IN  /\ services' = u.services
            /\ disposeCalls' = u.disposeCalls
            /\ pending' = u.pending
            /\ nCalls' = nCalls + 1
            /\ lastReplace' = NoReplace
            /\ mgrEvent' = MgrEvent(IF activeServices[id] = None
                                    THEN "unregisterNoop" ELSE "unregisterCall",
                                    id, activeServices[id], None, {}, {}, NoCalls)
            /\ UNCHANGED <<activeServices, isShuttingDown, dallFrames, engVars, extVars>>

UnregisterSettleKeepOnThrow(reg, id, threw) ==
    IF threw THEN reg ELSE [reg EXCEPT ![id] = None]

\* activeServices.delete(taskId): line 62 when dispose fulfilled, line 68 (in
\* the catch block) when it rejected.
UnregisterSettle(reg, id, threw) ==
    IF threw THEN [reg EXCEPT ![id] = None] ELSE [reg EXCEPT ![id] = None]

\* the continuation of unregisterService after `await service.dispose()`
\* (lines 62-69); the promise of unregisterService is then fulfilled.
UnregisterResume ==
    \E p \in pending :
        /\ p.kind = "unregister"
        /\ pending' = pending \ {p}
        /\ activeServices' = UnregisterSettle(activeServices, p.id, p.threw)
        /\ mgrEvent' = MgrEvent("unregisterDone", p.id, p.svc, None, {},
                                IF p.threw THEN {p.svc} ELSE {}, p.base)
        /\ UNCHANGED <<isShuttingDown, services, disposeCalls, dallFrames, nCalls,
                       lastReplace, engVars, extVars>>

Registered(reg) == {t \in TaskIds : reg[t] # None}

\* One entry of the loop of disposeAll: its async block runs through
\* service.dispose() and suspends.  The first dispose of an engine in this
\* loop has the result o; an engine stored under a second identifier is
\* disposed again, which finds it already released.
DisposeEntry(t, s, o, st) ==
    LET first == st.calls[s] = st.base[s]
        eng == IF first THEN o.eng ELSE Dispose(st.services[s], {}).eng
        thr == IF first THEN o.threw ELSE FALSE
    IN  [st EXCEPT !.services[s] = eng,
                   !.calls[s] = @ + 1,
                   !.threw = IF thr THEN @ \cup {s} ELSE @,
                   !.blocks = @ \cup {[kind |-> "iife", cid |-> st.cid, id |-> t,
                                       svc |-> s, threw |-> thr, base |-> st.base]}]

RECURSIVE DisposeLoopAbortOnThrow(_, _, _, _)
DisposeLoopAbortOnThrow(ids, reg, st, outs) ==
    IF ids = {} THEN st
    ELSE LET t == CHOOSE x \in ids : TRUE
             next == DisposeEntry(t, reg[t], outs[t], st)
         IN  IF next.threw # {} THEN next
             ELSE DisposeLoopAbortOnThrow(ids \ {t}, reg, next, outs)

\* The loop of disposeAll (lines 108-120): every entry's async block starts
\* inside the loop, whatever the earlier ones did.
RECURSIVE DisposeLoop(_, _, _, _)
DisposeLoop(ids, reg, st, outs) ==
    IF ids = {} THEN st
    ELSE LET t == CHOOSE x \in ids : TRUE
         IN  DisposeLoop(ids \ {t}, reg, DisposeEntry(t, reg[t], outs[t], st), outs)

NeverShuttingDown == FALSE

\* line 97: if (this.isShuttingDown)
AlreadyShuttingDown == isShuttingDown

\* disposeAll up to `await Promise.allSettled` (lines 96-124).
DisposeAll ==
    /\ nCalls < MaxCalls
    /\ IF AlreadyShuttingDown
       THEN /\ mgrEvent' = MgrEvent("disposeAllIgnored", None, None, None, {}, {},
                                    NoCalls)
            /\ nCalls' = nCalls + 1
            /\ lastReplace' = NoReplace
            /\ UNCHANGED <<activeServices, isShuttingDown, services, disposeCalls,
                           pending, dallFrames, engVars, extVars>>
       ELSE \E outs \in [Registered(activeServices) ->
                            UNION {DisposeOutcomes(services[e]) : e \in Engines}] :
            /\ \A t \in Registered(activeServices) :
                   outs[t] \in DisposeOutcomes(services[activeServices[t]])
            /\ LET st == DisposeLoop(Registered(activeServices), activeServices,
                            [services |-> services, calls |-> disposeCalls,
                             base |-> disposeCalls, threw |-> {}, blocks |-> {},
                             cid |-> nCalls + 1], outs)
                   targets == {activeServices[t] : t \in Registered(activeServices)}
               IN  /\ isShuttingDown' = TRUE
                   /\ services' = st.services
                   /\ disposeCalls' = st.calls
                   /\ pending' = pending \cup st.blocks
                   /\ dallFrames' = dallFrames \cup
                          {[cid |-> nCalls + 1, targets |-> targets,
                            threw |-> st.threw, base |-> disposeCalls]}
                   /\ nCalls' = nCalls + 1
                   /\ lastReplace' = NoReplace
                   /\ mgrEvent' = MgrEvent("disposeAllCall", None, None, None,
                                           targets, st.threw, disposeCalls)
                   /\ UNCHANGED <<activeServices, engVars, extVars>>

\* one async block of disposeAll after its await: line 113, or the catch of
\* lines 114-117; either way the block's promise is fulfilled.
DisposeBlockResume ==
    \E p \in pending :
        /\ p.kind = "iife"
        /\ pending' = pending \ {p}
        /\ mgrEvent' = MgrEvent("blockDone", p.id, p.svc, None, {},
                                IF p.threw THEN {p.svc} ELSE {}, NoCalls)
        /\ UNCHANGED <<activeServices, isShuttingDown, services, disposeCalls,
                       dallFrames, nCalls, lastReplace, engVars, extVars>>

\* disposeAll after Promise.allSettled (lines 129-133): every block has settled.
DisposeAllResume ==
    \E f \in dallFrames :
        /\ \A p \in pending : ~(p.kind = "iife" /\ p.cid = f.cid)
        /\ dallFrames' = dallFrames \ {f}
        /\ activeServices' = ClearServices(activeServices)
        /\ isShuttingDown' = FALSE
        /\ mgrEvent' = MgrEvent("disposeAllDone", None, None, None, f.targets,
                                f.threw, f.base)
        /\ UNCHANGED <<services, disposeCalls, pending, nCalls, lastReplace, engVars, extVars>>

\* reset() (lines 146-150)
Reset ==
    /\ nCalls < MaxCalls
    /\ activeServices' = ClearServices(activeServices)
    /\ isShuttingDown' = FALSE
    /\ nCalls' = nCalls + 1
    /\ lastReplace' = NoReplace
    /\ mgrEvent' = MgrEvent("reset", None, None, None, {}, {}, NoCalls)
    /\ UNCHANGED <<services, disposeCalls, pending, dallFrames, engVars, extVars>>

\* An engine object as the manager is handed it: constructed, and either not
\* yet initialized or initialized with a base revision and one checkpoint.
EngineStates ==
    {[git |-> g, _checkpoints |-> IF g THEN <<2>> ELSE <<>>,
      _baseHash |-> IF g THEN 1 ELSE NoHash,
      shadowGitConfigWorktree |-> NoWorktree, listeners |-> 0] : g \in BOOLEAN}

\* ------------------------------------------------- the shadow repository

EmptyTree == [f \in Tracked |-> Absent]

\* `git add .`: the index takes the workspace content of every file the
\* exclude patterns let through (deletions included).
Stage(ws) == [f \in Tracked |-> ws[f]]

CleanKeepsUntracked(ws, idx) == ws

\* `git clean -f -d -f`: removes the untracked files, those not in the index;
\* excluded files stay.
Clean(ws, idx) ==
    [f \in Files |-> IF f \in Tracked /\ idx[f] = Absent THEN Absent ELSE ws[f]]

\* `git reset --hard <revision>`: every file of the revision gets its content,
\* every other file of the index is removed; untracked files stay.
ResetHard(ws, idx, tree) ==
    [f \in Files |->
        IF f \in Excluded THEN ws[f]
        ELSE IF tree[f] # Absent THEN tree[f]
        ELSE IF idx[f] # Absent THEN Absent
        ELSE ws[f]]

\* The tree of HEAD (empty before the first commit).
HeadTree == IF head = NoHash THEN EmptyTree ELSE commits[head]

\* `git commit`: a new revision unless nothing is staged and --allow-empty is
\* not given; then simple-git reports an empty commit hash.
CommitCreates(allowEmpty) == allowEmpty \/ index # HeadTree

\* ------------------------------------------------------------- the calls

Emit(type, a, b) == [type |-> type, a |-> a, b |-> b]

IdleFrame ==
    [op |-> "idle", pc |-> "idle", attempt |-> 0, hash |-> NoHash,
     allowEmpty |-> FALSE, from |-> NoHash, to |-> NoHash, before |-> <<>>,
     events |-> <<>>, result |-> "none", ret |-> NoHash, created |-> 0,
     dirty |-> FALSE, adds |-> 0, cleans |-> 0, resets |-> 0, err |-> "",
     detect |-> 0, diff |-> {}, ws |-> EmptyTree, out |-> "none",
     prev |-> <<>>, onDisk |-> <<FALSE, 0>>]

\* A call begins in a free slot; `before` is the checkpoint list and `ws` (of a
\* restoreCheckpoint call) the tracked part of the workspace it starts from;
\* `out` is how its last git add, clean or reset went.  Of a getDiff call, `ws`
\* is the tracked part of the workspace it returned on, and `prev` holds the
\* result of the call before it when that one had the same arguments and
\* nothing has touched the workspace from its start on.  Of an initShadowGit
\* call, `onDisk` tells whether the repository existed when the call began,
\* and with how many revisions.
NewFrame(op) == [IdleFrame EXCEPT !.op = op, !.before = _checkpoints]

\* The call's promise is rejected with error e, after emitting evs.
Fail(f, e, evs) ==
    [f EXCEPT !.pc = "done", !.result = "error", !.err = e, !.events = @ \o evs]

\* The call's promise is fulfilled, after emitting evs.
Succeed(f, evs) == [f EXCEPT !.pc = "done", !.result = "ok", !.events = @ \o evs]

CanCall(i) ==
    /\ i \in slots
    /\ frames[i].pc \in {"idle", "done"}
    /\ git => nSteps < MaxSteps

\* The call counts if the engine has its handle.
CountOp == nSteps' = IF git THEN nSteps + 1 ELSE nSteps

At(i, op, pc) == i \in slots /\ frames[i].op = op /\ frames[i].pc = pc

\* The outcome of an awaited operation: it succeeds, or it fails with a message
\* that carries a lock signal ("lock") or does not ("fail").
Outcomes == {"ok", "lock", "fail"}

MayFail(out) == out = "ok" \/ nSteps < MaxSteps

CountFault(out) == nSteps' = IF out = "ok" THEN nSteps ELSE nSteps + 1

FailSilently(f, e) == Fail(f, e, <<>>)

\* The error ends a call according to the operation it belongs to:
\* saveCheckpoint emits "error" and rethrows (lines 319-324), getDiff wraps
\* it (lines 455-459), initShadowGit just throws.
FailOp(f, e) ==
    IF f.op = "save" THEN Fail(f, e, <<Emit("error", NoHash, NoHash)>>)
    ELSE IF f.op = "diff" THEN Fail(f, "Failed to get diff", <<>>)
    ELSE Fail(f, e, <<>>)

\* ------------------------------------------------- the user and the agent

\* The steps of a call that read or write the workspace.
WorkspaceSteps == {"add", "clean", "reset", "diffSummary", "diffFiles"}

\* A file of the workspace is written, created or removed, between two calls
\* or under a call in flight, ahead of its next step that looks at the
\* workspace (ahead of any other step the change is the same as one made
\* before the call or after that step).
EditFile ==
    /\ nSteps < MaxSteps
    /\ \A i \in Slots : frames[i].pc \in {"idle", "done"} \cup WorkspaceSteps
    /\ \E f \in Files, c \in Contents :
        /\ workspace[f] # c
        /\ f # "a" => c \in {0, 1}
        /\ workspace' = [workspace EXCEPT ![f] = c]
    /\ nSteps' = nSteps + 1
    /\ frames' = [i \in Slots |->
                    IF frames[i].pc \in {"idle", "done"} \/ frames[i].op = "init"
                    THEN frames[i]
                    ELSE [frames[i] EXCEPT !.dirty = TRUE]]
    /\ UNCHANGED <<objVars, repoVars, nestedRepo, slots, returned, mgrVars, extVars>>

\* dispose() on the engine (lines 467-518).  It is synchronous; calls that are
\* suspended stay suspended and resume on the disposed object.
DisposeEngine ==
    /\ nSteps < MaxSteps
    /\ \E r \in DisposeOutcomes([git |-> git, _checkpoints |-> _checkpoints,
                                  _baseHash |-> _baseHash,
                                  shadowGitConfigWorktree |-> shadowGitConfigWorktree,
                                  listeners |-> listeners]) :
            /\ git' = r.eng.git
            /\ _checkpoints' = r.eng._checkpoints
            /\ _baseHash' = r.eng._baseHash
            /\ shadowGitConfigWorktree' = r.eng.shadowGitConfigWorktree
            /\ listeners' = r.eng.listeners
    /\ nSteps' = nSteps + 1
    /\ returned' = [start |-> _checkpoints', revs |-> <<>>]
    /\ UNCHANGED <<workspaceDir, repoVars, workspace, nestedRepo, frames, slots,
                   mgrVars, extVars>>

\* --------------------------------------------------------- initShadowGit

AlwaysUninitialized == FALSE

\* line 69: if (this.git)
AlreadyInitialized == git

\* initShadowGit up to its first await (lines 68-73).
InitCall ==
    \E i \in Slots :
        /\ i \in slots
        /\ frames[i].pc \in {"idle", "done"}
        /\ frames' = [frames EXCEPT ![i] =
              IF AlreadyInitialized
              THEN Fail(NewFrame("init"), "already initialized", <<>>)
              ELSE [NewFrame("init") EXCEPT !.pc = "nested", !.detect = 1,
                                            !.onDisk = <<repoExists, Len(commits)>>]]
        /\ UNCHANGED <<objVars, repoVars, workspace, nestedRepo, slots, nSteps,
                       returned, mgrVars, extVars>>

NestedIgnored(out) == FALSE

\* The search failure taken for a finding.
NestedFoundOrFailed(out) == out # "ok" \/ nestedRepo

\* getNestedGitRepository (lines 213-262) reports a nested repository: the
\* search ran and found one; a failing search counts as none (lines 254-260).
NestedFound(out) == out = "ok" /\ nestedRepo

\* getNestedGitRepository returns, and lines 75-87 run.
NestedDone ==
    \E i \in Slots, out \in {"ok", "fail"} :
        /\ At(i, "init", "nested")
        /\ MayFail(out)
        /\ CountFault(out)
        /\ frames' = [frames EXCEPT ![i] =
              IF NestedFound(out)
              THEN Fail(@, "nested git repository", <<>>)
              ELSE [@ EXCEPT !.pc = "mkdir"]]
        /\ UNCHANGED <<objVars, repoVars, workspace, nestedRepo, slots, returned, mgrVars, extVars>>

\* fs.mkdir(checkpointsDir) (line 87)
MkdirDone ==
    \E i \in Slots, out \in {"ok", "fail"} :
        /\ At(i, "init", "mkdir")
        /\ MayFail(out)
        /\ CountFault(out)
        /\ dirExists' = (dirExists \/ out = "ok")
        /\ frames' = [frames EXCEPT ![i] =
              IF out = "ok" THEN [@ EXCEPT !.pc = "probe"]
              ELSE Fail(@, "mkdir", <<>>)]
        /\ UNCHANGED <<objVars, repoExists, commits, head, index, configWorktree,
                       excludeWritten, workspace, nestedRepo, slots, returned, mgrVars, extVars>>

\* git.version() and fileExistsAtPath(dotGitDir) (lines 88-95); then either
\* the cached worktree is compared at once, or git.getConfig or git.init
\* is awaited.
ProbeDone ==
    \E i \in Slots, out \in {"ok", "fail"} :
        /\ At(i, "init", "probe")
        /\ MayFail(out)
        /\ CountFault(out)
        /\ frames' = [frames EXCEPT ![i] =
              IF out # "ok" THEN Fail(@, "git version", <<>>)
              ELSE IF ~repoExists THEN [@ EXCEPT !.pc = "gitInit"]
              ELSE IF shadowGitConfigWorktree = NoWorktree
                   THEN [@ EXCEPT !.pc = "getConfig"]
              ELSE IF shadowGitConfigWorktree # workspaceDir
                   THEN Fail(@, "original workspace", <<>>)
              ELSE [@ EXCEPT !.pc = "excludeExisting"]]
        /\ UNCHANGED <<objVars, repoVars, workspace, nestedRepo, slots, returned, mgrVars, extVars>>

ReadWorktreeOrWorkspace(cached, out) ==
    IF cached # NoWorktree THEN cached
    ELSE IF out = "ok" THEN configWorktree
    ELSE workspaceDir

\* getShadowGitConfigWorktree (lines 264-276): the value read is cached; a
\* failing read is logged and leaves the cache unset.
ReadWorktree(cached, out) ==
    IF cached # NoWorktree THEN cached
    ELSE IF out = "ok" THEN configWorktree
    ELSE NoWorktree

\* git.getConfig("core.worktree") returns in initShadowGit (lines 97-105).
GetConfigDone ==
    \E i \in Slots, out \in {"ok", "fail"} :
        /\ At(i, "init", "getConfig")
        /\ MayFail(out)
        /\ CountFault(out)
        /\ shadowGitConfigWorktree' = ReadWorktree(shadowGitConfigWorktree, out)
        /\ frames' = [frames EXCEPT ![i] =
              IF shadowGitConfigWorktree' # workspaceDir
              THEN Fail(@, "original workspace", <<>>)
              ELSE [@ EXCEPT !.pc = "excludeExisting"]]
        /\ UNCHANGED <<git, _checkpoints, _baseHash, listeners, workspaceDir, repoVars, workspace,
                       nestedRepo, slots, returned, mgrVars, extVars>>

\* git.init() (line 109)
GitInitDone ==
    \E i \in Slots, out \in {"ok", "fail"} :
        /\ At(i, "init", "gitInit")
        /\ MayFail(out)
        /\ CountFault(out)
        /\ repoExists' = (repoExists \/ out = "ok")
        /\ frames' = [frames EXCEPT ![i] =
              IF out = "ok" THEN [@ EXCEPT !.pc = "config"]
              ELSE Fail(@, "git init", <<>>)]
        /\ UNCHANGED <<objVars, dirExists, commits, head, index, configWorktree,
                       excludeWritten, workspace, nestedRepo, slots, returned, mgrVars, extVars>>

\* the four git.addConfig calls (lines 110-113); core.worktree is the first
ConfigDone ==
    \E i \in Slots, out \in {"ok", "fail"} :
        /\ At(i, "init", "config")
        /\ MayFail(out)
        /\ CountFault(out)
        /\ configWorktree' = IF out = "ok" THEN workspaceDir ELSE configWorktree
        /\ frames' = [frames EXCEPT ![i] =
              IF out = "ok" THEN [@ EXCEPT !.pc = "excludeFresh"]
              ELSE Fail(@, "git config", <<>>)]
        /\ UNCHANGED <<objVars, dirExists, repoExists, commits, head, index,
                       excludeWritten, workspace, nestedRepo, slots, returned, mgrVars, extVars>>

\* writeExcludeFile (lines 147-179) returns: in an existing repository
\* git.revparse follows (line 106), in a fresh one stageAll (line 115).
ExcludeDone ==
    \E i \in Slots, out \in {"ok", "fail"} :
        /\ \/ At(i, "init", "excludeExisting")
           \/ At(i, "init", "excludeFresh")
        /\ MayFail(out)
        /\ CountFault(out)
        /\ excludeWritten' = (excludeWritten \/ out = "ok")
        /\ frames' = [frames EXCEPT ![i] =
              IF out # "ok" THEN Fail(@, "Failed to write exclude file", <<>>)
              ELSE IF @.pc = "excludeExisting" THEN [@ EXCEPT !.pc = "revparse"]
              ELSE [@ EXCEPT !.pc = "add", !.attempt = 1, !.adds = 1]]
        /\ UNCHANGED <<objVars, dirExists, repoExists, commits, head, index,
                       configWorktree, workspace, nestedRepo, slots, returned, mgrVars, extVars>>

\* git.revparse(["HEAD"]) returns (line 106); lines 121-129 follow: the base
\* revision and the handle are set and onInit is awaited.  A repository
\* without a commit has no HEAD to resolve.
RevparseDone ==
    \E i \in Slots, out \in {"ok", "fail"} :
        /\ At(i, "init", "revparse")
        /\ head = NoHash => out = "fail"
        /\ head = NoHash \/ MayFail(out)
        /\ nSteps' = IF out = "ok" \/ head = NoHash THEN nSteps ELSE nSteps + 1
        /\ _baseHash' = IF out = "ok" THEN head ELSE _baseHash
        /\ git' = (git \/ out = "ok")
        /\ frames' = [frames EXCEPT ![i] =
              IF out = "ok" THEN [@ EXCEPT !.pc = "onInit"]
              ELSE Fail(@, "git rev-parse", <<>>)]
        /\ UNCHANGED <<_checkpoints, shadowGitConfigWorktree, listeners, workspaceDir, repoVars,
                       workspace, nestedRepo, slots, returned,
                       mgrVars, extVars>>

\* onInit?.() returns (line 129); lines 131-139 emit "initialize" and return.
OnInitDone ==
    \E i \in Slots, out \in {"ok", "fail"} :
        /\ At(i, "init", "onInit")
        /\ MayFail(out)
        /\ CountFault(out)
        /\ frames' = [frames EXCEPT ![i] =
              IF out = "ok"
              THEN Succeed(@, <<Emit("initialize", _baseHash, @.created)>>)
              ELSE Fail(@, "onInit", <<>>)]
        /\ UNCHANGED <<objVars, repoVars, workspace, nestedRepo, slots, returned, mgrVars, extVars>>

\* ----------------------------------------------- stageAll and git.commit

StageAllUnbounded(attempt, out) ==
    IF out = "ok" THEN "return"
    ELSE IF out = "lock" THEN "delay"
    ELSE "retry"

\* stageAll (lines 181-211) after one git.add attempt: it returns on success;
\* on a lock failure with attempts left it waits and retries (lines 197-202);
\* on any other failure with attempts left it falls through line 206 into the
\* next iteration; on the last attempt it throws (lines 206-208).
StageAllNext(attempt, out) ==
    IF out = "ok" THEN "return"
    ELSE IF attempt = MaxRetries THEN "throw"
    ELSE IF out = "lock" THEN "delay"
    ELSE "retry"

\* What follows stageAll in its caller: the initial commit (line 116), the
\* commit of saveCheckpoint (line 294) or the diff summary of getDiff (line
\* 420); the last two read this.git again.
AfterStage(f) ==
    IF f.op = "init" THEN [f EXCEPT !.pc = "commit"]
    ELSE IF ~git THEN FailOp(f, "TypeError")
    ELSE IF f.op = "save" THEN [f EXCEPT !.pc = "commit"]
    ELSE [f EXCEPT !.pc = "diffSummary"]

\* git.add(".") returns inside stageAll.
GitAddDone ==
    \E i \in Slots, out \in Outcomes :
        /\ i \in slots
        /\ frames[i].pc = "add"
        /\ MayFail(out)
        /\ CountFault(out)
        /\ index' = IF out = "ok" THEN Stage(workspace) ELSE index
        /\ LET f == [frames[i] EXCEPT !.out = out]
               nxt == StageAllNext(f.attempt, out)
           IN  frames' = [frames EXCEPT ![i] =
                  IF nxt = "return" THEN AfterStage(f)
                  ELSE IF nxt = "delay" THEN [f EXCEPT !.pc = "addDelay"]
                  ELSE IF nxt = "retry"
                       THEN [f EXCEPT !.attempt = @ + 1, !.adds = @ + 1]
                  ELSE FailOp(f, "Failed to stage files")]
        /\ UNCHANGED <<objVars, dirExists, repoExists, commits, head,
                       configWorktree, excludeWritten, workspace, nestedRepo, slots,
                       returned, mgrVars, extVars>>

\* the retry delay of stageAll is over (line 200): the next git.add starts
AddRetry ==
    \E i \in Slots :
        /\ i \in slots
        /\ frames[i].pc = "addDelay"
        /\ frames' = [frames EXCEPT ![i] =
              [@ EXCEPT !.pc = "add", !.attempt = @ + 1, !.adds = @ + 1]]
        /\ UNCHANGED <<objVars, repoVars, workspace, nestedRepo, slots, nSteps,
                       returned, mgrVars, extVars>>

LastIsDefault(list, default) == default

\* this._checkpoints[this._checkpoints.length - 1] ?? this.baseHash (line 295)
Last(list, default) == IF Len(list) = 0 THEN default ELSE list[Len(list)]

SaveReplaceLast(list, h) ==
    IF list = <<>> THEN <<h>> ELSE [list EXCEPT ![Len(list)] = h]

SavePushFront(list, h) == <<h>> \o list

\* this._checkpoints.push(toHash) (line 297)
SavePush(list, h) == Append(list, h)

\* A run of saves that each returned a revision starts over.
NewRun(list) == [start |-> list, revs |-> <<>>]

\* git.commit returns: in initShadowGit lines 116-129 follow, in
\* saveCheckpoint lines 294-318.
GitCommitDone ==
    \E i \in Slots, out \in {"ok", "fail"} :
        /\ i \in slots
        /\ frames[i].pc = "commit"
        /\ MayFail(out)
        /\ CountFault(out)
        /\ LET f == frames[i]
               creates == out = "ok" /\ (f.op = "init" \/ CommitCreates(f.allowEmpty))
               rev == IF creates THEN Len(commits) + 1 ELSE NoHash
               fromHash == Last(_checkpoints, _baseHash)
               toHash == IF rev # NoHash THEN rev ELSE fromHash
           IN  /\ commits' = IF creates THEN Append(commits, index) ELSE commits
               /\ head' = IF creates THEN rev ELSE head
               /\ IF out # "ok"
                  THEN /\ frames' = [frames EXCEPT ![i] = FailOp(f, "git commit")]
                       /\ returned' = IF f.op = "save" THEN NewRun(_checkpoints)
                                      ELSE returned
                       /\ UNCHANGED objVars
                  ELSE IF f.op = "init"
                  THEN /\ _baseHash' = rev
                       /\ git' = TRUE
                       /\ frames' = [frames EXCEPT ![i] =
                              [f EXCEPT !.pc = "onInit", !.created = 1]]
                       /\ UNCHANGED <<_checkpoints, shadowGitConfigWorktree,
                                      listeners, workspaceDir, returned>>
                  ELSE /\ _checkpoints' = SavePush(_checkpoints, toHash)
                       /\ frames' = [frames EXCEPT ![i] =
                              Succeed([f EXCEPT !.ret = rev],
                                  IF rev # NoHash
                                  THEN <<Emit("checkpoint", fromHash, toHash)>>
                                  ELSE <<>>)]
                       /\ returned' =
                              IF rev # NoHash
                              THEN [returned EXCEPT !.revs = Append(@, rev)]
                              ELSE NewRun(_checkpoints')
                       /\ UNCHANGED <<git, _baseHash, shadowGitConfigWorktree,
                                      listeners, workspaceDir>>
        /\ UNCHANGED <<dirExists, repoExists, index, configWorktree,
                       excludeWritten, workspace, nestedRepo, slots, mgrVars, extVars>>

\* ------------------------------------------------------- saveCheckpoint

\* saveCheckpoint up to its first await (lines 278-292): an engine without a
\* handle fails at once, through the catch block.
SaveCall ==
    \E i \in Slots, allowEmpty \in BOOLEAN :
        /\ CanCall(i)
        /\ CountOp
        /\ frames' = [frames EXCEPT ![i] =
              IF ~git
              THEN FailOp(NewFrame("save"), "not initialized")
              ELSE [NewFrame("save") EXCEPT !.pc = "add", !.attempt = 1,
                                           !.adds = 1, !.allowEmpty = allowEmpty]]
        /\ returned' = IF ~git THEN NewRun(_checkpoints) ELSE returned
        /\ UNCHANGED <<objVars, repoVars, workspace, nestedRepo, slots, mgrVars, extVars>>

\* ---------------------------------------------------- restoreCheckpoint

RestoreCatchSilently(f, e) ==
    IF f.attempt = MaxRetries
    THEN Fail(f, e, <<>>)
    ELSE [f EXCEPT !.pc = "delay"]

\* the catch block of the retry loop (lines 383-400): on the last attempt
\* "error" is emitted and the call fails, before that it waits and loops.
RestoreCatch(f, e) ==
    IF f.attempt = MaxRetries
    THEN Fail(f, e, <<Emit("error", NoHash, NoHash)>>)
    ELSE [f EXCEPT !.pc = "delay"]

\* the catch of clean (lines 344-354) and of reset (lines 358-368): a lock
\* failure with attempts left waits and continues the loop, anything else is
\* thrown on to the catch block of the loop.
RestoreInner(f, out, e) ==
    IF out = "lock" /\ f.attempt < MaxRetries
    THEN [f EXCEPT !.pc = "delay"]
    ELSE RestoreCatch(f, e)

\* the head of one loop iteration (lines 331-343)
RestoreAttempt(f) ==
    IF ~git THEN RestoreCatch(f, "not initialized")
    ELSE [f EXCEPT !.pc = "clean", !.cleans = @ + 1]

\* The revisions a caller may pass: those of the repository, and one that
\* does not exist.
RestoreTargets == 1..(Len(commits) + 1)

RestoreCall ==
    \E i \in Slots, h \in RestoreTargets :
        /\ CanCall(i)
        /\ CountOp
        /\ frames' = [frames EXCEPT ![i] =
              RestoreAttempt([NewFrame("restore") EXCEPT !.hash = h, !.attempt = 1,
                                                        !.ws = Stage(workspace)])]
        /\ UNCHANGED <<objVars, repoVars, workspace, nestedRepo, slots, returned, mgrVars, extVars>>

\* a retry delay of restoreCheckpoint is over (lines 349, 363, 399)
RestoreRetry ==
    \E i \in Slots :
        /\ At(i, "restore", "delay")
        /\ frames' = [frames EXCEPT ![i] =
              RestoreAttempt([@ EXCEPT !.attempt = @ + 1])]
        /\ UNCHANGED <<objVars, repoVars, workspace, nestedRepo, slots, nSteps,
                       returned, mgrVars, extVars>>

\* git.clean returns (lines 343-356); on success git.reset starts, on this.git
\* read again.
CleanDone ==
    \E i \in Slots, out \in Outcomes :
        /\ At(i, "restore", "clean")
        /\ MayFail(out)
        /\ CountFault(out)
        /\ workspace' = IF out = "ok" THEN Clean(workspace, index) ELSE workspace
        /\ frames' = [frames EXCEPT ![i] =
              IF out # "ok" THEN RestoreInner([@ EXCEPT !.out = out], out, "git clean")
              ELSE IF ~git THEN RestoreCatch([@ EXCEPT !.out = out], "TypeError")
              ELSE [@ EXCEPT !.pc = "reset", !.resets = @ + 1, !.out = out]]
        /\ UNCHANGED <<objVars, repoVars, nestedRepo, slots, returned,
                       mgrVars, extVars>>

RECURSIVE IndexFrom(_, _, _)
IndexFrom(list, h, k) ==
    IF k > Len(list) THEN 0
    ELSE IF list[k] = h THEN k
    ELSE IndexFrom(list, h, k + 1)

\* this._checkpoints.indexOf(commitHash), counted from 1; 0 when absent
IndexOf(list, h) == IndexFrom(list, h, 1)

\* A revision the list does not hold empties the list.
TruncateOrClear(list, h) ==
    IF IndexOf(list, h) = 0 THEN <<>> ELSE SubSeq(list, 1, IndexOf(list, h))

\* lines 371-375: drop the checkpoints after commitHash
Truncate(list, h) ==
    IF IndexOf(list, h) = 0 THEN list ELSE SubSeq(list, 1, IndexOf(list, h))

\* git.reset(["--hard", commitHash]) returns (lines 357-382); a revision the
\* repository does not have makes it fail.
ResetDone ==
    \E i \in Slots, out \in Outcomes :
        /\ At(i, "restore", "reset")
        /\ frames[i].hash > Len(commits) => out = "fail"
        /\ frames[i].hash > Len(commits) \/ MayFail(out)
        /\ nSteps' = IF out = "ok" \/ frames[i].hash > Len(commits)
                      THEN nSteps ELSE nSteps + 1
        /\ LET f == [frames[i] EXCEPT !.out = out]
           IN  IF out = "ok"
               THEN /\ workspace' = ResetHard(workspace, index, commits[f.hash])
                    /\ index' = commits[f.hash]
                    /\ head' = f.hash
                    /\ _checkpoints' = Truncate(_checkpoints, f.hash)
                    /\ returned' = NewRun(_checkpoints')
                    /\ frames' = [frames EXCEPT ![i] =
                           Succeed(f, <<Emit("restore", f.hash, NoHash)>>)]
               ELSE /\ frames' = [frames EXCEPT ![i] = RestoreInner(f, out, "git reset")]
                    /\ UNCHANGED <<workspace, index, head, _checkpoints, returned>>
        /\ UNCHANGED <<git, _baseHash, shadowGitConfigWorktree, listeners, workspaceDir, dirExists,
                       repoExists, commits, configWorktree, excludeWritten,
                       nestedRepo, slots, mgrVars, extVars>>

\* ---------------------------------------------------------------- getDiff

\* The result of the getDiff call that frame `old` holds, if it returned one
\* for the arguments (from, to) and the workspace is still as it was from that
\* call's start on.
PrevDiff(old, from, to) ==
    IF /\ old.op = "diff" /\ old.pc = "done" /\ old.result = "ok"
       /\ ~old.dirty
       /\ old.to = to
       /\ IF old.hash # NoHash THEN from = NoHash ELSE old.from = from
       /\ old.ws = Stage(workspace)
    THEN <<old.diff>>
    ELSE <<>>

\* getDiff up to its first await (lines 404-417): without `from` the root
\* revision is looked up first, else stageAll starts.
GetDiffCall ==
    \E i \in Slots, from \in 0..Len(commits), to \in 0..Len(commits) :
        /\ CanCall(i)
        /\ to = NoHash \/ to > from
        /\ CountOp
        /\ LET new == [NewFrame("diff") EXCEPT !.prev = PrevDiff(frames[i], from, to)]
           IN  frames' = [frames EXCEPT ![i] =
                  IF ~git THEN Fail(new, "not initialized", <<>>)
                  ELSE IF from = NoHash
                       THEN [new EXCEPT !.pc = "revlist", !.to = to]
                  ELSE [new EXCEPT !.pc = "add", !.attempt = 1, !.adds = 1,
                                   !.from = from, !.to = to]]
        /\ UNCHANGED <<objVars, repoVars, workspace, nestedRepo, slots, returned, mgrVars, extVars>>

\* git.raw(["rev-list", "--max-parents=0", "HEAD"]) returns (line 413): the
\* root revision is the first one of the repository; `hash` keeps what the
\* lookup returned and `from` is assigned it.
RevlistDone ==
    \E i \in Slots, out \in {"ok", "fail"} :
        /\ At(i, "diff", "revlist")
        /\ head = NoHash => out = "fail"
        /\ head = NoHash \/ MayFail(out)
        /\ nSteps' = IF out = "ok" \/ head = NoHash THEN nSteps ELSE nSteps + 1
        /\ frames' = [frames EXCEPT ![i] =
              IF out # "ok" THEN Fail(@, "Failed to get diff", <<>>)
              ELSE IF ~git THEN Fail(@, "Failed to get diff", <<>>)
              ELSE [@ EXCEPT !.pc = "add", !.attempt = 1, !.adds = 1,
                             !.hash = 1, !.from = 1]]
        /\ UNCHANGED <<objVars, repoVars, workspace, nestedRepo, slots, returned, mgrVars, extVars>>

\* A summary that lists every file of the revision, changed or not.
DiffSummaryAllFiles(from, to) ==
    {f \in Tracked : commits[from][f] # Absent}

\* git.diffSummary: between two revisions, or between a revision and the
\* working tree as far as the index tracks it.
DiffSummary(from, to) ==
    IF to # NoHash
    THEN {f \in Tracked : commits[from][f] # commits[to][f]}
    ELSE {f \in Tracked :
            commits[from][f] # (IF index[f] # Absent THEN workspace[f] ELSE Absent)}

\* git.diffSummary returns (line 420); getShadowGitConfigWorktree follows
\* (line 422), awaiting git.getConfig unless the value is cached.
DiffSummaryDone ==
    \E i \in Slots, out \in {"ok", "fail"} :
        /\ At(i, "diff", "diffSummary")
        /\ MayFail(out)
        /\ CountFault(out)
        /\ LET f == frames[i]
           IN  frames' = [frames EXCEPT ![i] =
                  IF out # "ok" THEN Fail(f, "Failed to get diff", <<>>)
                  ELSE IF ~git THEN Fail(f, "Failed to get diff", <<>>)
                  ELSE [f EXCEPT !.pc = "diffFiles",
                                 !.diff = DiffSummary(f.from, f.to)]]
        /\ UNCHANGED <<objVars, repoVars, workspace, nestedRepo, slots, returned, mgrVars, extVars>>

CwdPathNoFallback(worktree) == worktree

\* line 422: the directory the absolute paths are made with is the worktree
\* read from the repository, or else this.workspaceDir.
CwdPath(worktree) == IF worktree # NoWorktree THEN worktree ELSE workspaceDir

\* lines 422-455: the worktree is read (and cached), then every file of the
\* summary gets its absolute path under that directory and its content before
\* (git show from:path) and after (git show to:path, or the file on disk); a
\* missing side is the empty content.
DiffFilesDone ==
    \E i \in Slots, out \in {"ok", "fail"} :
        /\ At(i, "diff", "diffFiles")
        /\ MayFail(out)
        /\ CountFault(out)
        /\ shadowGitConfigWorktree' = ReadWorktree(shadowGitConfigWorktree, out)
        /\ LET fr == frames[i]
           IN  frames' = [frames EXCEPT ![i] =
                  Succeed([fr EXCEPT !.ws = Stage(workspace),
                                     !.diff =
                              {[file |-> f,
                                cwd |-> CwdPath(shadowGitConfigWorktree'),
                                before |-> commits[fr.from][f],
                                after |-> IF fr.to # NoHash THEN commits[fr.to][f]
                                          ELSE workspace[f]] : f \in fr.diff}],
                          <<>>)]
        /\ UNCHANGED <<git, _checkpoints, _baseHash, listeners, workspaceDir, repoVars, workspace,
                       nestedRepo, slots, returned, mgrVars, extVars>>

\* ------------------------------------------------------ writeExcludeFile

\* writeExcludeFile calls of one behaviour.
MaxWrites == 3

\* The pattern lists: call n writes list n; list 0 is what the file holds
\* before the first call.  Torn(v) is a file that holds a part of list v.
Torn(v) == 0 - 2 - v
NoFile == 0 - 1

IdleWrite == [pc |-> "idle", result |-> "none", prev |-> NoFile, new |-> 0,
              failedAt |-> "none", unlinked |-> "none"]

\* The catch block of lines 174-178: log, and throw the wrapped error.
WriteThrows(f) == [f EXCEPT !.pc = "done", !.result = "error"]

\* writeExcludeFile up to its first await (lines 147-152).
WriteExcludeCall ==
    /\ writeFrame.pc \in {"idle", "done", "interrupted"}
    /\ writeFrame.new < MaxWrites
    /\ writeFrame' = [IdleWrite EXCEPT !.pc = "mkdir", !.prev = excludeFile,
                                       !.new = writeFrame.new + 1]
    /\ UNCHANGED <<excludeFile, tempFile>>
    /\ UNCHANGED notExclVars

\* fs.mkdir(info) returns (line 152)
WriteMkdirDone ==
    \E out \in {"ok", "fail"} :
        /\ writeFrame.pc = "mkdir"
        /\ writeFrame' = IF out = "ok" THEN [writeFrame EXCEPT !.pc = "patterns"]
                         ELSE WriteThrows([writeFrame EXCEPT !.failedAt = "mkdir"])
        /\ UNCHANGED <<excludeFile, tempFile>>
        /\ UNCHANGED notExclVars

\* getExcludePatterns returns (lines 155-159)
PatternsDone ==
    \E out \in {"ok", "fail"} :
        /\ writeFrame.pc = "patterns"
        /\ writeFrame' = IF out = "ok" THEN [writeFrame EXCEPT !.pc = "write"]
                         ELSE WriteThrows([writeFrame EXCEPT !.failedAt = "patterns"])
        /\ UNCHANGED <<excludeFile, tempFile>>
        /\ UNCHANGED notExclVars

\* What a failing fs.writeFile leaves at its path: the file as it was when
\* it could not be opened, else a part of the content.
FailedWrite(file, v) == {file, Torn(v)}

\* fs.writeFile(tempFilePath, content) returns (line 162)
WriteTempDone ==
    \E out \in {"ok", "fail"} :
        /\ writeFrame.pc = "write"
        /\ IF out = "ok"
           THEN /\ tempFile' = writeFrame.new
                /\ writeFrame' = [writeFrame EXCEPT !.pc = "rename"]
           ELSE /\ tempFile' \in FailedWrite(tempFile, writeFrame.new)
                /\ writeFrame' = [writeFrame EXCEPT !.pc = "unlink",
                                                    !.failedAt = "write"]
        /\ UNCHANGED excludeFile
        /\ UNCHANGED notExclVars

RenamedTorn(from, to, out) ==
    IF out = "ok" THEN [from |-> NoFile, to |-> from]
    ELSE [from |-> from, to |-> Torn(0)]

\* fs.rename(from, to): the file moves as a whole or not at all.
Renamed(from, to, out) ==
    IF out = "ok" THEN [from |-> NoFile, to |-> from]
    ELSE [from |-> from, to |-> to]

\* fs.rename(tempFilePath, excludeFilePath) returns (lines 163-164)
RenameDone ==
    \E out \in {"ok", "fail"} :
        /\ writeFrame.pc = "rename"
        /\ tempFile' = Renamed(tempFile, excludeFile, out).from
        /\ excludeFile' = Renamed(tempFile, excludeFile, out).to
        /\ writeFrame' = IF out = "ok"
                         THEN [writeFrame EXCEPT !.pc = "done", !.result = "ok"]
                         ELSE [writeFrame EXCEPT !.pc = "unlink",
                                                 !.failedAt = "rename"]
        /\ UNCHANGED notExclVars

\* fs.unlink(tempFilePath) returns (lines 165-172): its failure is ignored,
\* the error of the write or the rename is thrown again and wrapped.
UnlinkDone ==
    \E out \in {"ok", "fail"} :
        /\ writeFrame.pc = "unlink"
        /\ tempFile = NoFile => out = "fail"
        /\ tempFile' = IF out = "ok" THEN NoFile ELSE tempFile
        /\ writeFrame' = WriteThrows([writeFrame EXCEPT !.unlinked = out])
        /\ UNCHANGED excludeFile
        /\ UNCHANGED notExclVars

\* The process ends while the call is suspended.  A write that was under way
\* may have got part of the content into the temporary file, a rename that
\* was under way has moved the file or has not.
Interrupt ==
    /\ writeFrame.pc \in {"mkdir", "patterns", "write", "rename", "unlink"}
    /\ writeFrame' = [writeFrame EXCEPT !.pc = "interrupted"]
    /\ \E done \in {"ok", "fail"} :
        IF writeFrame.pc = "write"
        THEN /\ tempFile' \in FailedWrite(tempFile, writeFrame.new)
             /\ UNCHANGED excludeFile
        ELSE IF writeFrame.pc = "rename"
        THEN /\ tempFile' = Renamed(tempFile, excludeFile, done).from
             /\ excludeFile' = Renamed(tempFile, excludeFile, done).to
        ELSE IF writeFrame.pc = "unlink"
        THEN /\ tempFile' = IF done = "ok" THEN NoFile ELSE tempFile
             /\ UNCHANGED excludeFile
        ELSE UNCHANGED <<excludeFile, tempFile>>
    /\ UNCHANGED notExclVars

\* The exclude file writer is not part of the other runs.
ExclParked ==
    /\ excludeFile = 0
    /\ tempFile = NoFile
    /\ writeFrame = IdleWrite

\* ---------------------------------------------------------- deleteBranch

\* deleteBranch calls of one behaviour.
MaxDeletes == 2

\* pWaitFor (lines 603-609) polls every 500 ms for at most 2000 ms.
MaxPolls == 4

BranchNames == {"main", "master", "roo-1", "roo-2"}

NoBranch == "none"

IdleDelete == [pc |-> "idle", result |-> "none", branchName |-> NoBranch,
               all |-> {}, worktree |-> NoWorktree, defaultBranch |-> NoBranch,
               polls |-> 0, observed |-> FALSE, onCurrent |-> FALSE,
               ops |-> <<>>, restore |-> "none", n |-> 0,
               before |-> [branches |-> {}, currentBranch |-> NoBranch,
                           coreWorktree |-> NoWorktree]]

\* The call's promise settles: fulfilled with true or false, or rejected.
DeleteEnds(f, r) == [f EXCEPT !.pc = "done", !.result = r]

FinallySkipped(f, r) == DeleteEnds(f, r)

\* The finally block (lines 619-623) on the way out with result r: a
\* worktree value that was read is written back first.
Finally(f, r) ==
    IF f.worktree = NoWorktree THEN DeleteEnds(f, r)
    ELSE [f EXCEPT !.pc = "restore", !.result = r]

\* deleteBranch up to its first await (lines 583-584).
DeleteBranchCall ==
    \E b \in BranchNames :
        /\ delFrame.pc \in {"idle", "done"}
        /\ delFrame.n < MaxDeletes
        /\ delFrame' = [IdleDelete EXCEPT
              !.pc = "branchLocal", !.branchName = b, !.n = delFrame.n + 1,
              !.before = [branches |-> branches, currentBranch |-> currentBranch,
                          coreWorktree |-> coreWorktree]]
        /\ UNCHANGED <<branches, currentBranch, coreWorktree>>
        /\ UNCHANGED notBranchVars

\* git.branchLocal() returns (lines 584-589)
BranchLocalDone ==
    \E out \in {"ok", "fail"} :
        /\ delFrame.pc = "branchLocal"
        /\ delFrame' =
              IF out # "ok" THEN DeleteEnds(delFrame, "throw")
              ELSE IF delFrame.branchName \notin branches
                   THEN DeleteEnds([delFrame EXCEPT !.all = branches], "false")
              ELSE [delFrame EXCEPT !.pc = "revparse", !.all = branches]
        /\ UNCHANGED <<branches, currentBranch, coreWorktree>>
        /\ UNCHANGED notBranchVars

\* git.revparse(["--abbrev-ref", "HEAD"]) returns (lines 591-593, 624)
CurrentBranchDone ==
    \E out \in {"ok", "fail"} :
        /\ delFrame.pc = "revparse"
        /\ delFrame' =
              IF out # "ok" THEN DeleteEnds(delFrame, "throw")
              ELSE IF currentBranch = delFrame.branchName
                   THEN [delFrame EXCEPT !.pc = "getConfig", !.onCurrent = TRUE]
              ELSE [delFrame EXCEPT !.pc = "deleteOther"]
        /\ UNCHANGED <<branches, currentBranch, coreWorktree>>
        /\ UNCHANGED notBranchVars

\* git.getConfig("core.worktree") returns (line 594), outside the try block
WorktreeReadDone ==
    \E out \in {"ok", "fail"} :
        /\ delFrame.pc = "getConfig"
        /\ delFrame' =
              IF out # "ok" THEN DeleteEnds(delFrame, "throw")
              ELSE [delFrame EXCEPT !.pc = "unset", !.worktree = coreWorktree]
        /\ UNCHANGED <<branches, currentBranch, coreWorktree>>
        /\ UNCHANGED notBranchVars

\* git config --unset core.worktree returns (line 597); it fails when the
\* setting is not there.
UnsetDone ==
    \E out \in {"ok", "fail"} :
        /\ delFrame.pc = "unset"
        /\ coreWorktree = NoWorktree => out = "fail"
        /\ coreWorktree' = IF out = "ok" THEN NoWorktree ELSE coreWorktree
        /\ LET f == [delFrame EXCEPT !.ops = Append(@, "unset")]
           IN  delFrame' = IF out = "ok" THEN [f EXCEPT !.pc = "reset"]
                           ELSE Finally(f, "false")
        /\ UNCHANGED <<branches, currentBranch>>
        /\ UNCHANGED notBranchVars

\* git.reset(["--hard"]) returns (line 598)
HardResetDone ==
    \E out \in {"ok", "fail"} :
        /\ delFrame.pc = "reset"
        /\ LET f == [delFrame EXCEPT !.ops = Append(@, "reset")]
           IN  delFrame' = IF out = "ok" THEN [f EXCEPT !.pc = "clean"]
                           ELSE Finally(f, "false")
        /\ UNCHANGED <<branches, currentBranch, coreWorktree>>
        /\ UNCHANGED notBranchVars

\* line 600: branches.all.includes("main") ? "main" : "master"
DefaultBranch(all) == IF "main" \in all THEN "main" ELSE "master"

\* git.clean("f", ["-d"]) returns (lines 599-601)
BranchCleanDone ==
    \E out \in {"ok", "fail"} :
        /\ delFrame.pc = "clean"
        /\ LET f == [delFrame EXCEPT !.ops = Append(@, "clean")]
           IN  delFrame' =
                  IF out = "ok"
                  THEN [f EXCEPT !.pc = "checkout",
                                 !.defaultBranch = DefaultBranch(f.all)]
                  ELSE Finally(f, "false")
        /\ UNCHANGED <<branches, currentBranch, coreWorktree>>
        /\ UNCHANGED notBranchVars

\* git.checkout([defaultBranch, "--force"]) returns (line 601); a branch the
\* repository does not have cannot be checked out.
CheckoutDone ==
    \E out \in {"ok", "fail"} :
        /\ delFrame.pc = "checkout"
        /\ delFrame.defaultBranch \notin branches => out = "fail"
        /\ currentBranch' = IF out = "ok" THEN delFrame.defaultBranch
                            ELSE currentBranch
        /\ LET f == [delFrame EXCEPT !.ops = Append(@, "checkout")]
           IN  delFrame' = IF out = "ok" THEN [f EXCEPT !.pc = "poll"]
                           ELSE Finally(f, "false")
        /\ UNCHANGED <<branches, coreWorktree>>
        /\ UNCHANGED notBranchVars

ObservedAnything(newBranch, defaultBranch) == TRUE

\* line 606: return newBranch === defaultBranch
Observed(newBranch, defaultBranch) == newBranch = defaultBranch

\* One poll of pWaitFor returns (lines 603-609): git.revparse reports the
\* branch of HEAD, or still the branch HEAD was on, or fails.  The wait ends
\* with the first poll that sees the default branch; it is given up when
\* the time is over or a poll fails.
PollDone ==
    \E out \in {"ok", "fail"},
       newBranch \in {currentBranch, delFrame.branchName} :
        /\ delFrame.pc = "poll"
        /\ LET f == [delFrame EXCEPT !.ops = Append(@, "poll"),
                                     !.polls = @ + 1]
           IN  delFrame' =
                  IF out # "ok" THEN Finally(f, "false")
                  ELSE IF Observed(newBranch, f.defaultBranch)
                       THEN [f EXCEPT !.pc = "delete",
                                      !.observed = newBranch = f.defaultBranch]
                  ELSE IF f.polls >= MaxPolls THEN Finally(f, "false")
                  ELSE f
        /\ UNCHANGED <<branches, currentBranch, coreWorktree>>
        /\ UNCHANGED notBranchVars

\* `git branch -D`: the branch HEAD is on cannot be deleted.
BranchDelete(all, b, out) == IF out = "ok" THEN all \ {b} ELSE all

\* git.branch(["-D", branchName]) returns inside the try block (lines 611-612)
DeleteDone ==
    \E out \in {"ok", "fail"} :
        /\ delFrame.pc = "delete"
        /\ delFrame.branchName = currentBranch => out = "fail"
        /\ branches' = BranchDelete(branches, delFrame.branchName, out)
        /\ LET f == [delFrame EXCEPT !.ops = Append(@, "delete")]
           IN  delFrame' = Finally(f, IF out = "ok" THEN "true" ELSE "false")
        /\ UNCHANGED <<currentBranch, coreWorktree>>
        /\ UNCHANGED notBranchVars

\* git.addConfig("core.worktree", worktree.value) returns in the finally
\* block (lines 619-623); its failure replaces the outcome of the call.
RestoreDone ==
    \E out \in {"ok", "fail"} :
        /\ delFrame.pc = "restore"
        /\ coreWorktree' = IF out = "ok" THEN delFrame.worktree ELSE coreWorktree
        /\ delFrame' = DeleteEnds([delFrame EXCEPT !.restore = out],
                                  IF out = "ok" THEN delFrame.result ELSE "throw")
        /\ UNCHANGED <<branches, currentBranch>>
        /\ UNCHANGED notBranchVars

\* git.branch(["-D", branchName]) returns for a branch HEAD is not on
\* (lines 624-627)
DeleteOtherDone ==
    \E out \in {"ok", "fail"} :
        /\ delFrame.pc = "deleteOther"
        /\ delFrame.branchName = currentBranch => out = "fail"
        /\ branches' = BranchDelete(branches, delFrame.branchName, out)
        /\ delFrame' = DeleteEnds(delFrame, IF out = "ok" THEN "true" ELSE "throw")
        /\ UNCHANGED <<currentBranch, coreWorktree>>
        /\ UNCHANGED notBranchVars

\* The branch deletion is not part of the other runs.
BranchParked ==
    /\ branches = {"master"}
    /\ currentBranch = "master"
    /\ coreWorktree = NoWorktree
    /\ delFrame = IdleDelete

\* ----------------------------------------------------------- LoopService

\* startLoopTask calls that pass the guard, in one behaviour.
MaxStarts == 2

\* Files a discovery task finds.
MaxFiles == 2

NoTask == 0

\* The task object the n-th startRuleModeTask call creates is n; its
\* sub-task objects are Sub(n, 0) for the file discovery and Sub(n, k) for
\* the k-th file.
TaskNums == 1..MaxStarts
Sub(n, k) == n * 10 + k
SubIds == {Sub(n, k) : n \in TaskNums, k \in 0..MaxFiles}

IdleChain == [pc |-> "idle", list |-> <<>>, index |-> 0]

\* sendProgressUpdate (lines 917-930): the update goes out with the
\* sub-tasks of the current task.
Progress(st, task) == [status |-> st, task |-> task]

\* cleanup() (lines 935-940)
Cleanup(flags) == [flags EXCEPT !.isProcessing = FALSE, !.shouldCancel = FALSE]

\* line 52: if (this.isProcessing)
Busy == isProcessing

\* startLoopTask up to the first await of startRuleModeTask (lines 45-67,
\* 93-177), for a prompt in rule mode: a call that finds the service
\* processing returns; else the task object with its file discovery
\* sub-task replaces the current task.
StartLoopTask ==
    \E n \in TaskNums :
        /\ chains[n].pc = "idle"
        /\ \A m \in TaskNums : m < n => chains[m].pc # "idle"
        /\ sent' = <<>>
        /\ IF Busy
           THEN UNCHANGED <<currentTask, isProcessing, shouldCancel, subTasks,
                            status, chains>>
           ELSE /\ isProcessing' = TRUE
                /\ shouldCancel' = FALSE
                /\ currentTask' = n
                /\ subTasks' = [subTasks EXCEPT ![n] = <<Sub(n, 0)>>]
                /\ status' = [status EXCEPT ![Sub(n, 0)] = "RUNNING"]
                /\ chains' = [chains EXCEPT ![n] = [IdleChain EXCEPT !.pc = "createTask"]]
        /\ UNCHANGED cancelledTasks
        /\ UNCHANGED notLoopVars

\* The catch block of startRuleModeTask (lines 279-296): the discovery
\* sub-task fails, a FAILED update goes out, the view switch is awaited.
DiscoveryFails(n) ==
    /\ status' = [status EXCEPT ![Sub(n, 0)] = "FAILED"]
    /\ sent' = <<Progress("FAILED", currentTask)>>
    /\ chains' = [chains EXCEPT ![n].pc = "lastSwitch"]
    /\ UNCHANGED <<currentTask, isProcessing, shouldCancel, subTasks>>

\* provider.createTask and showTaskAndHideLoop return for the discovery
\* task (lines 177-198)
DiscoveryCreated ==
    \E n \in TaskNums, out \in {"ok", "fail"} :
        /\ chains[n].pc = "createTask"
        /\ IF out = "ok"
           THEN /\ sent' = <<Progress("DISCOVERING_FILES", currentTask)>>
                /\ chains' = [chains EXCEPT ![n].pc = "discovering"]
                /\ UNCHANGED <<currentTask, isProcessing, shouldCancel, subTasks,
                               status>>
           ELSE DiscoveryFails(n)
        /\ UNCHANGED cancelledTasks
        /\ UNCHANGED notLoopVars

\* waitForTaskCompletion(discoveryTask) returns (lines 198-215)
DiscoveryDone ==
    \E n \in TaskNums, out \in {"ok", "fail"} :
        /\ chains[n].pc = "discovering"
        /\ IF out = "ok"
           THEN /\ sent' = <<Progress("PARSING", currentTask)>>
                /\ chains' = [chains EXCEPT ![n].pc = "parsing"]
                /\ UNCHANGED <<currentTask, isProcessing, shouldCancel, subTasks,
                               status>>
           ELSE DiscoveryFails(n)
        /\ UNCHANGED cancelledTasks
        /\ UNCHANGED notLoopVars

\* The file list is read and filtered (lines 215-322): with files found, the
\* discovery sub-task completes, the current task gets the sub-task list
\* and the view switch is awaited.
FilesParsed ==
    \E n \in TaskNums, found \in 0..MaxFiles :
        /\ chains[n].pc = "parsing"
        /\ IF found > 0
           THEN /\ status' = [s \in SubIds |->
                                IF s = Sub(n, 0) THEN "COMPLETED"
                                ELSE IF \E k \in 1..found : s = Sub(n, k)
                                     THEN "PENDING"
                                ELSE status[s]]
                /\ subTasks' = [subTasks EXCEPT ![currentTask] =
                                   [k \in 1..(found + 1) |-> Sub(n, k - 1)]]
                /\ sent' = <<Progress("GENERATING_TEMPLATE", currentTask)>>
                /\ chains' = [chains EXCEPT ![n].pc = "switch"]
                /\ UNCHANGED <<currentTask, isProcessing, shouldCancel>>
           ELSE DiscoveryFails(n)
        /\ UNCHANGED cancelledTasks
        /\ UNCHANGED notLoopVars

\* switchToLoopViewAndCleanup returns and generateInstructionTemplateFromRule
\* runs up to its await (lines 322-325, 390-452)
SwitchDone ==
    \E n \in TaskNums :
        /\ chains[n].pc = "switch"
        /\ sent' = <<Progress("GENERATING_TEMPLATE", currentTask)>>
        /\ chains' = [chains EXCEPT ![n].pc = "template"]
        /\ UNCHANGED <<currentTask, isProcessing, shouldCancel, subTasks, status,
                       cancelledTasks>>
        /\ UNCHANGED notLoopVars

\* The template is generated or replaced by the fallback (lines 452-487,
\* 328-338); the timer before the first file is awaited.
TemplateDone ==
    \E n \in TaskNums :
        /\ chains[n].pc = "template"
        /\ sent' = <<Progress("PROCESSING", currentTask)>>
        /\ chains' = [chains EXCEPT ![n].pc = "timer"]
        /\ UNCHANGED <<currentTask, isProcessing, shouldCancel, subTasks, status,
                       cancelledTasks>>
        /\ UNCHANGED notLoopVars

\* The positions of a sub-task list from the second on whose sub-task is
\* PENDING (lines 503-505, 554-558); a PENDING sub-task is enabled.
PendingAt(list) == {k \in 2..Len(list) : status[list[k]] = "PENDING"}

Min(S) == CHOOSE k \in S : \A j \in S : k <= j

\* completeAllTasks (lines 606-633) up to its await
CompleteAllTasks(n, before) ==
    /\ sent' = before \o <<Progress("COMPLETED", currentTask)>>
    /\ isProcessing' = Cleanup([isProcessing |-> isProcessing,
                                shouldCancel |-> shouldCancel]).isProcessing
    /\ shouldCancel' = Cleanup([isProcessing |-> isProcessing,
                                shouldCancel |-> shouldCancel]).shouldCancel
    /\ chains' = [chains EXCEPT ![n].pc = "lastSwitch"]

\* The timer is over and continueNextTask runs (lines 338-341, 596-599,
\* 494-544, 639-649): without a PENDING sub-task in the current task the
\* run completes; else the first one starts RUNNING and provider.createTask
\* is awaited.
TimerDone ==
    \E n \in TaskNums :
        /\ chains[n].pc = "timer"
        /\ LET list == subTasks[currentTask]
           IN  IF PendingAt(list) = {}
               THEN /\ CompleteAllTasks(n, <<>>)
                    /\ UNCHANGED status
               ELSE /\ status' = [status EXCEPT ![list[Min(PendingAt(list))]] = "RUNNING"]
                    /\ sent' = <<Progress("PROCESSING", currentTask)>>
                    /\ chains' = [chains EXCEPT ![n] =
                           [pc |-> "createFile", list |-> list,
                            index |-> Min(PendingAt(list))]]
                    /\ UNCHANGED <<isProcessing, shouldCancel>>
        /\ UNCHANGED <<currentTask, subTasks, cancelledTasks>>
        /\ UNCHANGED notLoopVars

\* processSingleTaskAtIndex after processSingleFile (lines 545-600): the
\* sub-task gets its final status; a pending cancellation ends the chain;
\* without a PENDING sub-task in the list the run completes; else the view
\* switch and the timer are awaited.
AfterFile(n, final, before) ==
    LET c == chains[n]
        st == [status EXCEPT ![c.list[c.index]] = final]
        more == \E k \in 2..Len(c.list) : st[c.list[k]] = "PENDING"
    IN  /\ status' = st
        /\ IF shouldCancel
           THEN /\ sent' = before
                /\ chains' = [chains EXCEPT ![n].pc = "done"]
                /\ UNCHANGED <<isProcessing, shouldCancel>>
           ELSE IF ~more
           THEN CompleteAllTasks(n, before \o <<Progress("PROCESSING", currentTask)>>)
           ELSE /\ sent' = before \o <<Progress("PROCESSING", currentTask)>>
                /\ chains' = [chains EXCEPT ![n].pc = "timer"]
                /\ UNCHANGED <<isProcessing, shouldCancel>>

\* provider.createTask returns in processSingleFile (lines 649-674)
FileCreated ==
    \E n \in TaskNums, out \in {"ok", "fail"} :
        /\ chains[n].pc = "createFile"
        /\ IF out = "ok"
           THEN /\ sent' = <<Progress("PROCESSING", currentTask)>>
                /\ chains' = [chains EXCEPT ![n].pc = "waitFile"]
                /\ UNCHANGED <<isProcessing, shouldCancel, status>>
           ELSE AfterFile(n, "FAILED", <<>>)
        /\ UNCHANGED <<currentTask, subTasks, cancelledTasks>>
        /\ UNCHANGED notLoopVars

\* waitForTaskCompletion returns or rejects in processSingleFile (lines
\* 674-683)
FileDone ==
    \E n \in TaskNums, out \in {"ok", "fail"} :
        /\ chains[n].pc = "waitFile"
        /\ AfterFile(n, IF out = "ok" THEN "COMPLETED" ELSE "FAILED", <<>>)
        /\ UNCHANGED <<currentTask, subTasks, cancelledTasks>>
        /\ UNCHANGED notLoopVars

\* the last switchToLoopViewAndCleanup of a chain returns (lines 295-296,
\* 632), and with it startRuleModeTask and startLoopTask
LastSwitchDone ==
    \E n \in TaskNums :
        /\ chains[n].pc = "lastSwitch"
        /\ sent' = <<>>
        /\ chains' = [chains EXCEPT ![n].pc = "done"]
        /\ UNCHANGED <<currentTask, isProcessing, shouldCancel, subTasks, status,
                       cancelledTasks>>
        /\ UNCHANGED notLoopVars

\* cancelTask (lines 839-871) up to its await
CancelTask ==
    /\ sent' = IF currentTask = NoTask THEN <<>>
               ELSE <<Progress("CANCELLED", currentTask)>>
    /\ IF currentTask = NoTask
       THEN UNCHANGED <<isProcessing, shouldCancel, status, cancelledTasks>>
       ELSE /\ isProcessing' = Cleanup([isProcessing |-> FALSE,
                                        shouldCancel |-> TRUE]).isProcessing
            /\ shouldCancel' = Cleanup([isProcessing |-> FALSE,
                                        shouldCancel |-> TRUE]).shouldCancel
            /\ status' = [s \in SubIds |->
                            IF /\ \E k \in 1..Len(subTasks[currentTask]) :
                                     subTasks[currentTask][k] = s
                               /\ status[s] \in {"PENDING", "RUNNING"}
                            THEN "CANCELLED" ELSE status[s]]
            /\ cancelledTasks' = cancelledTasks \cup {currentTask}
    /\ UNCHANGED <<currentTask, subTasks, chains>>
    /\ UNCHANGED notLoopVars

\* The loop service is not part of the other runs.
LoopParked ==
    /\ currentTask = NoTask
    /\ isProcessing = FALSE
    /\ shouldCancel = FALSE
    /\ subTasks = [n \in TaskNums |-> <<>>]
    /\ status = [s \in SubIds |-> "none"]
    /\ chains = [n \in TaskNums |-> IdleChain]
    /\ sent = <<>>
    /\ cancelledTasks = {}

ExtParked == ExclParked /\ BranchParked /\ LoopParked

\* ------------------------------------------------------ the engine alone

\* The workspace at the start: file a exists, b and x do not yet.
InitialWorkspace == [f \in Files |-> IF f = "a" THEN 1 ELSE Absent]

\* No shadow repository yet at checkpointsDir.
NoRepoOnDisk ==
    /\ dirExists = FALSE
    /\ repoExists = FALSE
    /\ commits = <<>>
    /\ head = NoHash
    /\ index = EmptyTree
    /\ configWorktree = NoWorktree
    /\ excludeWritten = FALSE

\* A shadow repository left by an earlier session, made for this workspace
\* or for another one.
RepoOnDisk ==
    /\ dirExists = TRUE
    /\ repoExists = TRUE
    /\ commits = <<Stage(InitialWorkspace)>>
    /\ head = 1
    /\ index = Stage(InitialWorkspace)
    /\ configWorktree \in {WorkspaceDir, OtherDir}
    /\ excludeWritten = TRUE

\* The engine after its constructor (lines 47-66), with the listener its
\* owner subscribes before any call.
Constructed ==
    /\ git = FALSE
    /\ _checkpoints = <<>>
    /\ _baseHash = NoHash
    /\ shadowGitConfigWorktree = NoWorktree
    /\ listeners = 1
    /\ workspaceDir = WorkspaceDir
    /\ frames = [i \in Slots |-> IdleFrame]
    /\ nSteps = 0
    /\ returned = NewRun(<<>>)

\* The manager is not part of the engine's runs.
MgrParked ==
    /\ activeServices = [t \in TaskIds |-> None]
    /\ isShuttingDown = FALSE
    /\ services = [e \in Engines |-> CHOOSE s \in EngineStates : ~s.git]
    /\ disposeCalls = NoCalls
    /\ pending = {}
    /\ dallFrames = {}
    /\ nCalls = 0
    /\ lastReplace = NoReplace
    /\ mgrEvent = MgrEvent("init", None, None, None, {}, {}, NoCalls)

\* The engines of the manager's runs are the records of `services`.
EngParked ==
    /\ Constructed
    /\ NoRepoOnDisk
    /\ workspace = InitialWorkspace
    /\ nestedRepo = FALSE
    /\ slots = {}

EngInit ==
    /\ Constructed
    /\ \/ NoRepoOnDisk /\ nestedRepo \in BOOLEAN
       \/ RepoOnDisk /\ nestedRepo = FALSE
    /\ workspace = InitialWorkspace
    /\ slots = {1}
    /\ MgrParked
    /\ ExtParked

EngNext ==
    \/ EditFile
    \/ DisposeEngine
    \/ InitCall
    \/ NestedDone
    \/ MkdirDone
    \/ ProbeDone
    \/ GetConfigDone
    \/ GitInitDone
    \/ ConfigDone
    \/ ExcludeDone
    \/ RevparseDone
    \/ OnInitDone
    \/ GitAddDone
    \/ AddRetry
    \/ GitCommitDone
    \/ SaveCall
    \/ RestoreCall
    \/ RestoreRetry
    \/ CleanDone
    \/ ResetDone
    \/ GetDiffCall
    \/ RevlistDone
    \/ DiffSummaryDone
    \/ DiffFilesDone

\* One call at a time on one engine, as its callers are required to use it.
SpecEngine == EngInit /\ [][EngNext]_vars

\* The steps that complete an awaited operation or a retry delay of a call
\* in flight.
EngProgress ==
    \/ NestedDone
    \/ MkdirDone
    \/ ProbeDone
    \/ GetConfigDone
    \/ GitInitDone
    \/ ConfigDone
    \/ ExcludeDone
    \/ RevparseDone
    \/ OnInitDone
    \/ GitAddDone
    \/ AddRetry
    \/ GitCommitDone
    \/ RestoreRetry
    \/ CleanDone
    \/ ResetDone
    \/ RevlistDone
    \/ DiffSummaryDone
    \/ DiffFilesDone

\* The calls on one engine while nobody touches the workspace files.
QuietNext ==
    \/ DisposeEngine
    \/ InitCall
    \/ SaveCall
    \/ RestoreCall
    \/ GetDiffCall
    \/ EngProgress

\* Every awaited operation settles and every timer fires.
SpecQuiet == EngInit /\ [][QuietNext]_vars /\ WF_vars(EngProgress)

\* The engine after initShadowGit has created its repository (lines 107-129),
\* with two call slots: a caller starts a call while another is suspended.
OverlapInit ==
    /\ git = TRUE
    /\ _checkpoints = <<>>
    /\ _baseHash = 1
    /\ shadowGitConfigWorktree = NoWorktree
    /\ listeners = 1
    /\ workspaceDir = WorkspaceDir
    /\ frames = [i \in Slots |-> IdleFrame]
    /\ nSteps = 0
    /\ returned = NewRun(<<>>)
    /\ dirExists = TRUE
    /\ repoExists = TRUE
    /\ commits = <<Stage(InitialWorkspace)>>
    /\ head = 1
    /\ index = Stage(InitialWorkspace)
    /\ configWorktree = WorkspaceDir
    /\ excludeWritten = TRUE
    /\ workspace = InitialWorkspace
    /\ nestedRepo = FALSE
    /\ slots = Slots
    /\ MgrParked
    /\ ExtParked

\* saveCheckpoint and restoreCheckpoint calls and their steps.
OverlapNext ==
    \/ EditFile
    \/ SaveCall
    \/ RestoreCall
    \/ GitAddDone
    \/ AddRetry
    \/ GitCommitDone
    \/ RestoreRetry
    \/ CleanDone
    \/ ResetDone

\* Overlapping saveCheckpoint and restoreCheckpoint calls on one engine,
\* which the engine does not serialize.
SpecOverlap == OverlapInit /\ [][OverlapNext]_vars

\* ------------------------------------------------- the engine's creation

\* os.homedir() and its Desktop, Documents and Downloads (lines 50-54)
protectedPaths == {"home", "home/Desktop", "home/Documents", "home/Downloads"}

\* The workspace paths an owner may pass to the constructor.
Paths == protectedPaths \cup {WorkspaceDir}

NoPathProtected(dir) == FALSE

\* line 56: protectedPaths.includes(workspaceDir)
Protected(dir) == dir \in protectedPaths

\* new ShadowCheckpointService(taskId, checkpointsDir, workspaceDir, log)
\* (lines 47-66): it throws for a protected workspace, and then there is no
\* instance to call; else the instance exists and takes calls.
Construct ==
    /\ slots = {}
    /\ frames' = [frames EXCEPT ![1] =
          IF Protected(workspaceDir)
          THEN Fail(NewFrame("new"), "Cannot use checkpoints", <<>>)
          ELSE Succeed(NewFrame("new"), <<>>)]
    /\ slots' = IF Protected(workspaceDir) THEN slots ELSE {1}
    /\ UNCHANGED <<objVars, repoVars, workspace, nestedRepo, nSteps, returned,
                   mgrVars, extVars>>

\* Before the constructor runs: the fields have their initializers (lines
\* 23-29), workspaceDir is the path the owner is about to pass.
ConstructInit ==
    /\ git = FALSE
    /\ _checkpoints = <<>>
    /\ _baseHash = NoHash
    /\ shadowGitConfigWorktree = NoWorktree
    /\ listeners = 0
    /\ workspaceDir \in Paths
    /\ frames = [i \in Slots |-> IdleFrame]
    /\ nSteps = 0
    /\ returned = NewRun(<<>>)
    /\ \/ NoRepoOnDisk /\ nestedRepo \in BOOLEAN
       \/ RepoOnDisk /\ nestedRepo = FALSE
    /\ workspace = InitialWorkspace
    /\ slots = {}
    /\ MgrParked
    /\ ExtParked

ConstructNext ==
    \/ Construct
    \/ EngNext

\* One engine from its creation on.
SpecConstruct == ConstructInit /\ [][ConstructNext]_vars

\* ------------------------------------------------------ the manager alone

MgrInit ==
    /\ activeServices = [t \in TaskIds |-> None]
    /\ isShuttingDown = FALSE
    /\ services \in [Engines -> EngineStates]
    /\ disposeCalls = [e \in Engines |-> 0]
    /\ pending = {}
    /\ dallFrames = {}
    /\ nCalls = 0
    /\ lastReplace = NoReplace
    /\ mgrEvent = MgrEvent("init", None, None, None, {}, {}, NoCalls)
    /\ EngParked
    /\ ExtParked

MgrNext ==
    \/ RegisterService
    \/ UnregisterService
    \/ UnregisterResume
    \/ DisposeAll
    \/ DisposeBlockResume
    \/ DisposeAllResume
    \/ Reset

SpecManager == MgrInit /\ [][MgrNext]_vars

\* The continuations that run once a dispose() promise has settled.
MgrProgress ==
    \/ UnregisterResume
    \/ DisposeBlockResume
    \/ DisposeAllResume

\* Every dispose() terminates and every continuation gets its turn.
SpecManagerFair == MgrInit /\ [][MgrNext]_vars /\ WF_vars(MgrProgress)

\* ----------------------------------------------------- claims: the manager

Settled == pending = {} /\ dallFrames = {}

Replaced == lastReplace.id # None /\ lastReplace.new # lastReplace.old

\* C2: after registerService(id, e2) replaced e1 and every pending step has
\* settled, getService(id) is e2, e2 has not been disposed and e1 has.
C2_ReplacementStaysRegistered ==
    (Replaced /\ Settled) =>
        /\ activeServices[lastReplace.id] = lastReplace.new
        /\ disposeCalls[lastReplace.new] = lastReplace.newCalls
        /\ disposeCalls[lastReplace.old] > lastReplace.oldCalls

\* An engine whose handle and checkpoint state dispose() has dropped (its
\* listeners stay when removeAllListeners threw, which dispose swallows).
Released(eng) ==
    /\ ~eng.git
    /\ eng._checkpoints = <<>>
    /\ eng._baseHash = NoHash

\* C3: whenever getService(id) returns the engine a registerService call put in
\* the place of another one, dispose() has already run on the replaced engine
\* (and has released it, unless it threw).
C3_OldDisposedBeforeNewReachable ==
    (Replaced /\ activeServices[lastReplace.id] = lastReplace.new) =>
        /\ disposeCalls[lastReplace.old] > lastReplace.oldCalls
        /\ ~lastReplace.oldThrew => Released(services[lastReplace.old])

C3_Witness ==
    /\ Replaced
    /\ activeServices[lastReplace.id] = lastReplace.new
    /\ lastReplace.oldCalls = 0
    /\ disposeCalls[lastReplace.old] = 1
    /\ Released(services[lastReplace.old])
    /\ services[lastReplace.old].listeners = 0
    /\ services[lastReplace.new].git
    /\ pending # {}

\* C7: when disposeAll completes, dispose() has been called on each engine that
\* was registered when it started, also when some of these calls threw, and
\* the registry is empty.
C7_DisposeAllReachesEveryEngine ==
    mgrEvent.op = "disposeAllDone" =>
        /\ \A e \in mgrEvent.targets : disposeCalls[e] > mgrEvent.base[e]
        /\ Registered(activeServices) = {}

C7_Witness ==
    /\ mgrEvent.op = "disposeAllDone"
    /\ Cardinality(mgrEvent.targets) = 2
    /\ mgrEvent.threw # {}
    /\ \A e \in mgrEvent.targets : disposeCalls[e] = 1
    /\ Registered(activeServices) = {}

\* C8: a registerService call made while the shutdown flag is set changes
\* nothing: the registry, every engine (its listeners included), the dispose
\* counts and the pending continuations stay as they are.
C8_ShutdownSuppressesRegistration ==
    [][(isShuttingDown /\ mgrEvent'.op \in {"register", "registerIgnored"}) =>
          /\ mgrEvent'.op = "registerIgnored"
          /\ UNCHANGED <<activeServices, services, disposeCalls, pending,
                         dallFrames, isShuttingDown>>]_vars

C8_Witness ==
    /\ mgrEvent.op = "registerIgnored"
    /\ isShuttingDown
    /\ dallFrames # {}
    /\ Registered(activeServices) # {}
    /\ \A t \in TaskIds : activeServices[t] # mgrEvent.svc

\* C9: when unregisterService(id) completes, dispose() has been called on the
\* engine it found under id and getService(id) does not return that engine,
\* whether dispose threw or not; for an unknown id the call changes nothing.
C9_UnregisterDisposesAndRemoves ==
    [][/\ mgrEvent'.op = "unregisterDone" =>
            /\ disposeCalls'[mgrEvent'.svc] > mgrEvent'.base[mgrEvent'.svc]
            /\ activeServices'[mgrEvent'.id] # mgrEvent'.svc
       /\ mgrEvent'.op = "unregisterNoop" =>
            UNCHANGED <<activeServices, services, disposeCalls, pending,
                        dallFrames, isShuttingDown>>]_vars

C9_Witness ==
    /\ mgrEvent.op = "unregisterDone"
    /\ mgrEvent.threw = {mgrEvent.svc}
    /\ services[mgrEvent.svc].git
    /\ activeServices[mgrEvent.id] = None
    /\ disposeCalls[mgrEvent.svc] = 1

\* ------------------------------------------------------ claims: the engine

\* The step in which the call of operation op in slot i returns normally.
Returns(i, op) ==
    /\ frames[i].op = op
    /\ frames[i].pc \notin {"idle", "done"}
    /\ frames'[i].pc = "done"
    /\ frames'[i].result = "ok"

\* C1: a saveCheckpoint call without allowEmpty whose commit produces no new
\* revision returns an empty result and leaves the checkpoint list as it was.
C1_NoChangeSaveLeavesListAlone ==
    [][\A i \in Slots :
         (Returns(i, "save") /\ ~frames[i].allowEmpty /\ commits' = commits) =>
             /\ frames'[i].ret = NoHash
             /\ _checkpoints' = _checkpoints]_vars

\* C4: while saveCheckpoint calls each return a revision, the checkpoint list
\* is the list the run started from followed by the returned revisions in
\* call order.
C4_SavesAppendInCallOrder == _checkpoints = returned.start \o returned.revs

\* Two saves in a row on a freshly initialized engine each returned a revision.
C4_Witness ==
    /\ git
    /\ returned.start = <<>>
    /\ Len(returned.revs) >= 2
    /\ \E i \in Slots : frames[i].op = "save" /\ frames[i].pc = "done"

\* C5: a successful restoreCheckpoint(r) on a list nobody else changed during
\* the call leaves exactly the first k entries, for every position k that
\* holds r.
C5_RestoreKeepsFirstK ==
    [][\A i \in Slots :
         (Returns(i, "restore") /\ _checkpoints = frames[i].before) =>
             \A k \in 1..Len(_checkpoints) :
                 _checkpoints[k] = frames[i].hash =>
                     _checkpoints' = SubSeq(_checkpoints, 1, k)]_vars

\* C6: a successful restoreCheckpoint(r) with no workspace change under it
\* leaves every tracked file with the content it has in r, absent when r
\* does not have it.
C6_RestoreRevertsWorkspace ==
    [][\A i \in Slots :
         (Returns(i, "restore") /\ ~frames'[i].dirty) =>
             \A f \in Tracked : workspace'[f] = commits[frames[i].hash][f]]_vars

\* A restore has reverted an edited file and removed a file created after the
\* revision.
C6_Witness ==
    \E i \in Slots :
        /\ frames[i].op = "restore" /\ frames[i].pc = "done"
        /\ frames[i].result = "ok" /\ ~frames[i].dirty
        /\ \A f \in Tracked : workspace[f] = commits[frames[i].hash][f]
        /\ frames[i].ws["a"] # workspace["a"]
        /\ frames[i].ws["b"] # Absent /\ workspace["b"] = Absent

\* C10: initShadowGit on an engine that has its handle fails with "already
\* initialized", without nested-repository detection, without an event and
\* without a change to the repository, the base revision or the checkpoint
\* list.
C10_SecondInitFailsUntouched ==
    [][\A i \in Slots :
         (/\ git
          /\ frames[i].pc \in {"idle", "done"}
          /\ frames'[i] # frames[i]
          /\ frames'[i].op = "init") =>
             /\ frames'[i].pc = "done"
             /\ frames'[i].result = "error"
             /\ frames'[i].err = "already initialized"
             /\ frames'[i].detect = 0
             /\ frames'[i].events = <<>>
             /\ UNCHANGED <<objVars, repoVars, workspace>>]_vars

\* A second initShadowGit has been rejected on an initialized engine.
C10_Witness ==
    /\ git
    /\ \E i \in Slots :
        /\ frames[i].op = "init" /\ frames[i].pc = "done"
        /\ frames[i].err = "already initialized"

\* The step in which the call of operation op in slot i leaves pc.
Leaves(i, op, pc) ==
    /\ frames[i].op = op
    /\ frames[i].pc = pc
    /\ frames'[i] # frames[i]
    /\ frames'[i].dirty = frames[i].dirty

\* C11: when nested-repository detection reports a nested repository,
\* initShadowGit fails there and then: the storage directory, the repository,
\* the exclude file and the engine are as they were, the engine has no
\* handle from this call and no event is emitted.
C11_NestedRepoFailsBeforeMutation ==
    [][\A i \in Slots :
         (Leaves(i, "init", "nested") /\ nestedRepo /\ nSteps' = nSteps) =>
             /\ frames'[i].pc = "done"
             /\ frames'[i].result = "error"
             /\ frames'[i].err = "nested git repository"
             /\ frames'[i].events = <<>>
             /\ UNCHANGED <<objVars, repoVars>>]_vars

\* A first initShadowGit was rejected for a nested repository and nothing
\* exists at the storage path.
C11_Witness ==
    /\ ~git /\ ~dirExists /\ ~repoExists /\ ~excludeWritten
    /\ \E i \in Slots :
        /\ frames[i].op = "init" /\ frames[i].pc = "done"
        /\ frames[i].err = "nested git repository"

\* C12: for a workspace path that is one of the protected directories no
\* engine ever exists to be initialized, and nothing is done at the storage
\* path: no directory, no repository, no configuration, no exclude file.
C12_ProtectedWorkspaceNeverInitialized ==
    [][(workspaceDir \in protectedPaths) =>
         /\ slots' = {}
         /\ ~git'
         /\ \A i \in Slots : frames'[i].op \in {"idle", "new"}
         /\ UNCHANGED <<repoVars>>]_vars

\* The constructor has thrown for a protected workspace.
C12_Witness ==
    /\ workspaceDir \in protectedPaths
    /\ slots = {}
    /\ frames[1].op = "new" /\ frames[1].result = "error"
    /\ ~git

\* The step of initShadowGit in slot i that compares the worktree of an
\* existing repository (lines 97-99), when the recorded core.worktree is not
\* the workspace path or could not be read.
WorktreeRejected(i) ==
    \/ /\ Leaves(i, "init", "getConfig")
       /\ configWorktree # workspaceDir \/ nSteps' # nSteps
    \/ /\ Leaves(i, "init", "probe")
       /\ nSteps' = nSteps
       /\ repoExists
       /\ shadowGitConfigWorktree # NoWorktree
       /\ configWorktree # workspaceDir

\* C13: on a storage directory whose repository records another worktree, or
\* none that can be read, initShadowGit fails; the engine keeps no handle, the
\* base revision and the checkpoint list stay as they were, the repository
\* and its exclude file are not written and no event is emitted.
C13_ForeignWorktreeRejected ==
    [][\A i \in Slots :
         WorktreeRejected(i) =>
             /\ frames'[i].pc = "done"
             /\ frames'[i].result = "error"
             /\ frames'[i].err = "original workspace"
             /\ frames'[i].events = <<>>
             /\ ~git'
             /\ UNCHANGED <<git, _checkpoints, _baseHash, repoVars>>]_vars

\* initShadowGit was rejected on a repository made for another workspace.
C13_Witness ==
    /\ ~git /\ _baseHash = NoHash
    /\ repoExists /\ configWorktree = OtherDir
    /\ \E i \in Slots :
        /\ frames[i].op = "init" /\ frames[i].pc = "done"
        /\ frames[i].err = "original workspace"

\* The engine's fields as dispose() sees them.
Self ==
    [git |-> git, _checkpoints |-> _checkpoints, _baseHash |-> _baseHash,
     shadowGitConfigWorktree |-> shadowGitConfigWorktree, listeners |-> listeners]

\* C14: however a dispose() call on an initialized engine goes, the engine is
\* left without handle, checkpoints, base revision and listeners, and any
\* further dispose() returns normally and changes nothing.
C14_DisposeIdempotent ==
    git =>
        \A first \in DisposeOutcomes(Self) :
            /\ Released(first.eng)
            /\ first.eng.listeners = 0
            /\ \A further \in DisposeOutcomes(first.eng) :
                   ~further.threw /\ further.eng = first.eng

ErrorEvent == Emit("error", NoHash, NoHash)

AddFailsWithoutLock(i) ==
    /\ i \in slots
    /\ frames[i].pc = "add"
    /\ workspace' = workspace
    /\ frames'[i] # frames[i]
    /\ frames'[i].out = "fail"

\* C17: a git add failure without a lock signal ends the call with an error
\* at once, and git add is not invoked again.
C17_StageAllRetriesOnlyOnLock ==
    [][\A i \in Slots :
         AddFailsWithoutLock(i) =>
             /\ frames'[i].pc = "done"
             /\ frames'[i].result = "error"
             /\ frames'[i].adds = frames[i].adds]_vars

\* The step in which git.clean or git.reset fails, in the restoreCheckpoint
\* call of slot i, with a message that carries no lock signal.
RestoreFailsWithoutLock(i) ==
    /\ i \in slots
    /\ frames[i].op = "restore"
    /\ frames[i].pc \in {"clean", "reset"}
    /\ workspace' = workspace
    /\ frames'[i] # frames[i]
    /\ frames'[i].out = "fail"

\* C18: a failure of clean or reset without a lock signal ends the
\* restoreCheckpoint call with an error, and neither is invoked again.
C18_RestoreRetriesOnlyOnLock ==
    [][\A i \in Slots :
         RestoreFailsWithoutLock(i) =>
             /\ frames'[i].pc = "done"
             /\ frames'[i].result = "error"]_vars

\* The retry counts of every call stay within the fixed maximum, and a call
\* that has returned normally has had its last git add, clean or reset
\* succeed.
RetriesBounded ==
    \A i \in Slots :
        /\ frames[i].adds <= MaxRetries
        /\ frames[i].cleans <= MaxRetries
        /\ frames[i].resets <= MaxRetries
        /\ frames[i].attempt <= MaxRetries
        /\ frames[i].pc = "done" => frames[i].result \in {"ok", "error"}
        /\ (frames[i].result = "ok" /\ frames[i].op \in {"save", "restore", "diff"})
               => frames[i].out = "ok"
        /\ (frames[i].result = "ok" /\ frames[i].op = "restore")
               => frames[i].cleans >= 1 /\ frames[i].resets >= 1

\* C19: one call invokes git add, clean and reset at most three times each,
\* and under any pattern of failures it ends, having succeeded or with an
\* error raised.
C19_RetriesBoundedAndConclusive ==
    /\ []RetriesBounded
    /\ \A i \in Slots : (frames[i].pc \notin {"idle", "done"}) ~> (frames[i].pc = "done")

\* A call has failed after three git add invocations.
C19_Witness ==
    \E i \in Slots :
        /\ frames[i].pc = "done" /\ frames[i].result = "error"
        /\ frames[i].adds = MaxRetries
        /\ frames[i].err = "Failed to stage files"

\* The step in which a getDiff({}) call, which has looked up the root
\* revision to diff from, returns on an engine that has saved nothing since
\* its initialization and whose workspace is as its base revision recorded it.
DiffOfFreshEngineReturns(i) ==
    /\ Returns(i, "diff")
    /\ frames[i].hash # NoHash
    /\ frames[i].from = frames[i].hash
    /\ frames[i].to = NoHash
    /\ ~frames[i].dirty
    /\ git
    /\ _checkpoints = <<>>
    /\ _baseHash # NoHash
    /\ Stage(workspace) = commits[_baseHash]

\* C20 as stated: getDiff({}) on an engine that has just been initialized,
\* with no workspace change since the base revision, returns an empty list.
C20_FreshDiffEmpty ==
    [][\A i \in Slots :
         DiffOfFreshEngineReturns(i) => frames'[i].diff = {}]_vars

\* C20: getDiff({}) on an engine that has just been initialized on a
\* repository whose base revision is its root revision, with no workspace
\* change since, returns an empty list.
C20_FreshDiffEmptyWhenBaseIsRoot ==
    [][\A i \in Slots :
         (DiffOfFreshEngineReturns(i) /\ _baseHash = 1) => frames'[i].diff = {}]_vars

\* getDiff({}) has returned the empty list on a just-initialized engine whose
\* base revision is the root revision and whose workspace is unchanged.
C20_Witness ==
    \E i \in Slots :
        /\ frames[i].op = "diff" /\ frames[i].pc = "done" /\ frames[i].result = "ok"
        /\ frames[i].hash = 1 /\ frames[i].from = 1
        /\ frames[i].to = NoHash /\ ~frames[i].dirty
        /\ frames[i].diff = {}
        /\ git /\ _checkpoints = <<>> /\ _baseHash = 1
        /\ Stage(workspace) = commits[1]

Disposed == listeners = 0

\* C22: once the engine has been disposed it never is initialized again,
\* whatever is called on it.
C22_DisposedNeverReadyAgain ==
    [][Disposed => ~git']_vars

\* The step in which the initShadowGit call of slot i, begun on an engine
\* without a handle, raises an error.
InitRaises(i) ==
    /\ frames[i].op = "init"
    /\ frames[i].pc \notin {"idle", "done"}
    /\ frames'[i].pc = "done"
    /\ frames'[i].result = "error"

\* C23: when initShadowGit raises an error, also one that the onInit
\* callback raised, the engine has no handle afterwards (isInitialized is
\* false, and saveCheckpoint, restoreCheckpoint and getDiff fail with "not
\* initialized").
C23_FailedInitLeavesUninitialized ==
    [][\A i \in Slots : InitRaises(i) => ~git']_vars

\* C24: in one restoreCheckpoint call, clean is not invoked again once reset
\* has been invoked, and a reset that keeps failing on a lock ends the call
\* only after its own three attempts, however many clean has used.
C24_CleanAndResetRetriedIndependently ==
    [][\A i \in Slots :
         (frames[i].op = "restore" /\ frames[i].pc \notin {"idle", "done"}
            /\ frames[i].resets >= 1) =>
             /\ frames'[i].cleans = frames[i].cleans
             /\ (frames[i].pc = "reset" /\ frames'[i].pc = "done"
                   /\ frames'[i].out = "lock")
                    => frames[i].resets = MaxRetries]_vars

\* The step in which the saveCheckpoint call of slot i ends.
SaveEnds(i) ==
    /\ frames'[i].op = "save"
    /\ frames'[i].pc = "done"
    /\ frames'[i] # frames[i]

\* C25: a saveCheckpoint call that produces a new revision emits exactly one
\* "checkpoint" event, from the last entry the list had just before the
\* append (the base revision when it was empty) to the revision it returns; a
\* call that produces none emits no "checkpoint" event.
C25_OneCheckpointEventPerRevision ==
    [][\A i \in Slots :
         SaveEnds(i) =>
             IF Len(commits') > Len(commits)
             THEN /\ frames'[i].result = "ok"
                  /\ frames'[i].ret = Len(commits')
                  /\ frames'[i].events =
                        <<Emit("checkpoint",
                               IF _checkpoints = <<>> THEN _baseHash
                               ELSE _checkpoints[Len(_checkpoints)],
                               frames'[i].ret)>>
             ELSE \A k \in 1..Len(frames'[i].events) :
                      frames'[i].events[k].type # "checkpoint"]_vars

\* A save has returned a new revision onto a list that was not empty.
C25_Witness ==
    \E i \in Slots :
        /\ frames[i].op = "save" /\ frames[i].pc = "done" /\ frames[i].result = "ok"
        /\ frames[i].ret # NoHash
        /\ Len(_checkpoints) >= 2
        /\ frames[i].events = <<Emit("checkpoint", _checkpoints[Len(_checkpoints) - 1],
                                     frames[i].ret)>>
        /\ _checkpoints[Len(_checkpoints) - 1] # _baseHash

\* The checkpoint list holds its revisions in the order their commits
\* completed: a revision is its commit's place in that order.
InCommitOrder(list) ==
    \A j, k \in 1..Len(list) : j < k => list[j] <= list[k]

\* C26: with saveCheckpoint and restoreCheckpoint calls overlapping, the step
\* in which a commit completes appends its revision to the list, which stays
\* in commit order; and the step in which restoreCheckpoint emits "restore"
\* and returns has truncated the list.
C26_OverlapKeepsCommitOrder ==
    [][/\ Len(commits') > Len(commits) =>
              _checkpoints' = Append(_checkpoints, Len(commits'))
       /\ InCommitOrder(_checkpoints')
       /\ \A i \in Slots :
            Returns(i, "restore") =>
                /\ _checkpoints' = Truncate(_checkpoints, frames[i].hash)
                /\ frames'[i].events = <<Emit("restore", frames[i].hash, NoHash)>>
                /\ IndexOf(_checkpoints, frames[i].hash) # 0
                      => Last(_checkpoints', NoHash) = frames[i].hash]_vars

\* Two saveCheckpoint calls that both began on the empty list, so that they
\* overlapped, have appended their revisions as their commits completed, the
\* call of slot 2 first.
C26_Witness ==
    /\ frames[1].op = "save" /\ frames[1].pc = "done" /\ frames[1].ret = 3
    /\ frames[2].op = "save" /\ frames[2].pc = "done" /\ frames[2].ret = 2
    /\ frames[1].before = <<>> /\ frames[2].before = <<>>
    /\ _checkpoints = <<2, 3>>

\* A disposeAll call has completed in the last step: the registry is empty
\* and the shutdown flag is down.
DisposeAllCompleted ==
    /\ mgrEvent.op = "disposeAllDone"
    /\ Registered(activeServices) = {}
    /\ ~isShuttingDown

\* C27 as stated: the shutdown flag is set as long as a disposeAll call is in
\* flight.
C27_FlagSetWhileInFlight ==
    dallFrames # {} => isShuttingDown

\* C27: disposeAll sets the shutdown flag at its start, and while a
\* disposeAll is in flight the flag is lowered only by reset() or by the step
\* in which a disposeAll call, every dispose of it having settled, clears the
\* registry and the flag; the flag is down whenever no disposeAll is in
\* flight; and a disposeAll call in flight eventually completes, with the
\* registry empty and the flag down.
C27_FlagHeldUntilCleared ==
    /\ [][/\ (nCalls' = nCalls + 1 /\ mgrEvent'.op = "disposeAllCall")
                => isShuttingDown' /\ dallFrames' # {}
          /\ (dallFrames # {} /\ isShuttingDown /\ ~isShuttingDown') =>
                \/ nCalls' = nCalls + 1 /\ mgrEvent'.op = "reset"
                \/ /\ DisposeAllCompleted'
                   /\ \E f \in dallFrames :
                         /\ dallFrames' = dallFrames \ {f}
                         /\ \A p \in pending : ~(p.kind = "iife" /\ p.cid = f.cid)]_vars
    /\ [](isShuttingDown => dallFrames # {})
    /\ (dallFrames # {}) ~> DisposeAllCompleted

\* A disposeAll call over two engines, one of whose disposals threw, has
\* completed.
C27_Witness ==
    /\ DisposeAllCompleted
    /\ Cardinality(mgrEvent.targets) = 2
    /\ mgrEvent.threw # {}
    /\ dallFrames = {}

\* The step is a disposeAll call.
DisposeAllCalled ==
    /\ nCalls' = nCalls + 1
    /\ mgrEvent'.op \in {"disposeAllCall", "disposeAllIgnored"}

\* The manager's registry, flag and engines, and what is suspended, stay as
\* they are.
MgrUntouched ==
    UNCHANGED <<activeServices, isShuttingDown, services, disposeCalls, pending,
                dallFrames>>

\* C28 as stated: a disposeAll call made while another disposeAll is in
\* flight disposes no engine, does not clear the registry and does not change
\* the shutdown flag.
C28_ReentrantDisposeAllNoop ==
    [][(DisposeAllCalled /\ dallFrames # {}) => MgrUntouched]_vars

\* C28: a disposeAll call made while another disposeAll is in flight and the
\* shutdown flag is still set (no reset() has lowered it) disposes no engine,
\* does not clear the registry and does not change the flag.
C28_ReentrantDisposeAllNoopWhileFlagSet ==
    [][(DisposeAllCalled /\ dallFrames # {} /\ isShuttingDown) => MgrUntouched]_vars

\* A second disposeAll has returned at once while the first is suspended with
\* an engine still registered.
C28_Witness ==
    /\ mgrEvent.op = "disposeAllIgnored"
    /\ dallFrames # {}
    /\ isShuttingDown
    /\ Registered(activeServices) # {}

\* C29: when a step of dispose() fails, the remaining cleanup is still done
\* (handle, checkpoint list, base revision and cached worktree cleared, the
\* listeners removed unless removing them is what failed) and the error is
\* raised to the caller.
C29_DisposeCleansUpAndRaises ==
    git =>
        \A F \in DisposeFaults :
            LET r == Dispose(Self, F)
            IN  /\ r.threw =>
                      /\ Released(r.eng)
                      /\ r.eng.shadowGitConfigWorktree = NoWorktree
                      /\ "RML" \notin F => r.eng.listeners = 0
                /\ F = {"RML"} => r.threw

\* C30: a successful initShadowGit has set the handle and the base revision
\* before it awaits onInit and emits; in an existing repository the base
\* revision is HEAD, no commit is added and the checkpoint list is empty; it
\* then emits exactly one "initialize" event, carrying the engine's base
\* revision and a created flag that is set exactly when the repository did
\* not exist before the call.
C30_InitializeEventAndRestart ==
    [][\A i \in Slots :
         /\ (frames[i].op = "init" /\ frames[i].pc # "onInit"
               /\ frames'[i].op = "init" /\ frames'[i].pc = "onInit") =>
                /\ git'
                /\ _baseHash' = head'
                /\ _checkpoints' = <<>>
                /\ frames[i].onDisk[1] =>
                      /\ Len(commits') = frames[i].onDisk[2]
                      /\ _baseHash' = head
         /\ Returns(i, "init") =>
                /\ frames'[i].events =
                      <<Emit("initialize", _baseHash', frames'[i].created)>>
                /\ frames'[i].created = 1 <=> ~frames[i].onDisk[1]]_vars

\* C34: when the search run by getNestedGitRepository fails, initShadowGit
\* goes on exactly as it does when the search finds nothing: the call moves
\* on to creating the storage directory with an unchanged frame, nothing of
\* the engine or the repository changes, and the call does not end there.
C34_FailedDetectionIsNoNestedRepo ==
    [][\A i \in Slots :
         (Leaves(i, "init", "nested") /\ nSteps' = nSteps + 1) =>
             /\ frames'[i] = [frames[i] EXCEPT !.pc = "mkdir"]
             /\ UNCHANGED <<objVars, repoVars>>]_vars

\* The search failed although a nested repository exists, and the
\* initShadowGit call went on to succeed.
C34_Witness ==
    /\ nestedRepo /\ git
    /\ \E i \in Slots :
        /\ frames[i].op = "init" /\ frames[i].pc = "done"
        /\ frames[i].result = "ok"

\* C37: in every state of an engine the checkpoint list holds no revision
\* twice and never holds the base revision.
C37_ListDistinctWithoutBase ==
    /\ \A m, n \in 1..Len(_checkpoints) :
          _checkpoints[m] = _checkpoints[n] => m = n
    /\ \A m \in 1..Len(_checkpoints) : _checkpoints[m] # _baseHash

\* C38: the step in which restoreCheckpoint(r) returns normally for a
\* revision r that the checkpoint list does not hold (the base revision, for
\* one) has reset the repository and the files of r to r, emits one "restore"
\* event for r and leaves the checkpoint list as it was.
C38_RestoreOutsideListKeepsList ==
    [][\A i \in Slots :
         (Returns(i, "restore") /\ IndexOf(_checkpoints, frames[i].hash) = 0) =>
             /\ head' = frames[i].hash
             /\ index' = commits[frames[i].hash]
             /\ \A f \in Tracked :
                   commits[frames[i].hash][f] # Absent =>
                       workspace'[f] = commits[frames[i].hash][f]
             /\ frames'[i].events = <<Emit("restore", frames[i].hash, NoHash)>>
             /\ _checkpoints' = _checkpoints]_vars

\* A restoreCheckpoint of the base revision has returned on an engine whose
\* list holds a later revision and not the base revision.
C38_Witness ==
    \E i \in Slots :
        /\ frames[i].op = "restore" /\ frames[i].pc = "done"
        /\ frames[i].result = "ok"
        /\ frames[i].hash = _baseHash /\ head = _baseHash
        /\ _checkpoints # <<>>
        /\ \A k \in 1..Len(_checkpoints) : _checkpoints[k] > _baseHash

\* The manager's operations without reset().
MgrNoResetNext ==
    \/ RegisterService
    \/ UnregisterService
    \/ UnregisterResume
    \/ DisposeAll
    \/ DisposeBlockResume
    \/ DisposeAllResume

SpecManagerNoReset == MgrInit /\ [][MgrNoResetNext]_vars

\* The engines the registry holds.
Stored(reg) == {reg[t] : t \in Registered(reg)}

\* C35: without reset(), no engine leaves the registry undisposed: the step
\* that takes the last entry of an engine out of the registry finds dispose()
\* called on that engine at least once.
C35_NoEngineLeavesUndisposed ==
    [][\A e \in Engines :
         (e \in Stored(activeServices) /\ e \notin Stored(activeServices')) =>
             disposeCalls'[e] > 0]_vars

\* A constructed engine with two call slots: a caller starts initShadowGit
\* while another initShadowGit call is suspended.
InitOverlapInit ==
    /\ Constructed
    /\ \/ NoRepoOnDisk
       \/ RepoOnDisk
    /\ nestedRepo = FALSE
    /\ workspace = InitialWorkspace
    /\ slots = Slots
    /\ MgrParked
    /\ ExtParked

\* initShadowGit calls and their steps.
InitOverlapNext ==
    \/ InitCall
    \/ NestedDone
    \/ MkdirDone
    \/ ProbeDone
    \/ GetConfigDone
    \/ GitInitDone
    \/ ConfigDone
    \/ ExcludeDone
    \/ RevparseDone
    \/ OnInitDone
    \/ GitAddDone
    \/ AddRetry
    \/ GitCommitDone

\* Overlapping initShadowGit calls on one engine.
SpecInitOverlap == InitOverlapInit /\ [][InitOverlapNext]_vars

\* The initShadowGit call of slot i has returned normally, with its
\* "initialize" event.
InitSucceeded(i) ==
    /\ frames[i].op = "init" /\ frames[i].pc = "done"
    /\ frames[i].result = "ok"

\* C36: of two overlapping initShadowGit calls on an uninitialized engine at
\* most one returns normally with its "initialize" event, and the repository
\* gets at most one initial commit.
C36_OverlappingInitOnlyOnce ==
    /\ Cardinality({i \in Slots : InitSucceeded(i)}) <= 1
    /\ Len(commits) <= 1

ExclInit ==
    /\ excludeFile = 0
    /\ tempFile \in {NoFile, Torn(0)}
    /\ writeFrame = IdleWrite
    /\ MgrParked
    /\ EngParked
    /\ BranchParked
    /\ LoopParked

ExclNext ==
    \/ WriteExcludeCall
    \/ WriteMkdirDone
    \/ PatternsDone
    \/ WriteTempDone
    \/ RenameDone
    \/ UnlinkDone
    \/ Interrupt

\* writeExcludeFile calls one after the other, each of which the end of the
\* process may cut short.
SpecExclude == ExclInit /\ [][ExclNext]_vars

\* During and after a writeExcludeFile call, interrupted or not, the exclude
\* file holds the complete content it had before the call or the complete
\* new pattern list.
ExcludeFileWhole ==
    writeFrame.pc # "idle" =>
        excludeFile \in {writeFrame.prev, writeFrame.new}

\* The call has ended after fs.writeFile or fs.rename failed.
WriteOrRenameFailed ==
    /\ writeFrame.pc = "done"
    /\ writeFrame.failedAt \in {"write", "rename"}

\* C31 as stated: the exclude file is never a partial write, and when writing
\* or renaming fails the temporary file is removed and an error is raised.
C31_AtomicWriteTempRemoved ==
    /\ ExcludeFileWhole
    /\ WriteOrRenameFailed =>
          /\ tempFile = NoFile
          /\ writeFrame.result = "error"

\* C31: the exclude file is never a partial write; when writing or renaming
\* fails, the removal of the temporary file has been attempted, the file is
\* gone unless that removal failed, and an error is raised.
C31_AtomicWriteTempRemovalAttempted ==
    /\ ExcludeFileWhole
    /\ writeFrame.pc = "done" =>
          (writeFrame.result = "ok" <=> writeFrame.failedAt = "none")
    /\ WriteOrRenameFailed =>
          /\ writeFrame.unlinked # "none"
          /\ writeFrame.unlinked = "ok" => tempFile = NoFile
          /\ writeFrame.result = "error"

\* A rename has failed on a complete temporary file, the temporary file has
\* been removed, and the exclude file holds what it held before the call.
C31_Witness ==
    /\ WriteOrRenameFailed
    /\ writeFrame.failedAt = "rename"
    /\ writeFrame.unlinked = "ok"
    /\ tempFile = NoFile
    /\ excludeFile = writeFrame.prev
    /\ writeFrame.new = 2 /\ excludeFile = 1

\* A repository with some branches, HEAD on one of them, core.worktree set
\* or not.
BranchInit ==
    /\ branches \in (SUBSET BranchNames) \ {{}}
    /\ currentBranch \in branches
    /\ coreWorktree \in {NoWorktree, WorkspaceDir}
    /\ delFrame = IdleDelete
    /\ MgrParked
    /\ EngParked
    /\ ExclParked
    /\ LoopParked

BranchNext ==
    \/ DeleteBranchCall
    \/ BranchLocalDone
    \/ CurrentBranchDone
    \/ WorktreeReadDone
    \/ UnsetDone
    \/ HardResetDone
    \/ BranchCleanDone
    \/ CheckoutDone
    \/ PollDone
    \/ DeleteDone
    \/ RestoreDone
    \/ DeleteOtherDone

\* deleteBranch calls one after the other on one repository.
SpecBranch == BranchInit /\ [][BranchNext]_vars

DeleteOrder == <<"unset", "reset", "clean", "checkout", "poll", "delete">>

RECURSIVE OncePerStep(_)
\* The log of issued steps with repeated polls counted once.
OncePerStep(ops) ==
    IF Len(ops) <= 1 THEN ops
    ELSE IF ops[1] = "poll" /\ ops[2] = "poll" THEN OncePerStep(Tail(ops))
    ELSE <<ops[1]>> \o OncePerStep(Tail(ops))

IsPrefix(s, t) == Len(s) <= Len(t) /\ s = SubSeq(t, 1, Len(s))

Issued(f, op) == \E k \in 1..Len(f.ops) : f.ops[k] = op

LoopInit ==
    /\ LoopParked
    /\ MgrParked
    /\ EngParked
    /\ ExclParked
    /\ BranchParked

LoopNext ==
    \/ StartLoopTask
    \/ DiscoveryCreated
    \/ DiscoveryDone
    \/ FilesParsed
    \/ SwitchDone
    \/ TemplateDone
    \/ TimerDone
    \/ FileCreated
    \/ FileDone
    \/ LastSwitchDone
    \/ CancelTask

\* startLoopTask and cancelTask calls with the steps of the chains they
\* started.
SpecLoop == LoopInit /\ [][LoopNext]_vars

\* The sub-task objects of task object t.
SubsOf(t) == {subTasks[t][k] : k \in 1..Len(subTasks[t])}

\* C39: once cancelTask has run on a task, no sub-task of it that is
\* CANCELLED changes its status, no sub-task of it starts RUNNING, and every
\* progress update sent for it has the status CANCELLED.
C39_CancelStopsTheChain ==
    [][\A t \in cancelledTasks :
         /\ \A s \in SubsOf(t) :
               /\ status[s] = "CANCELLED" => status'[s] = "CANCELLED"
               /\ status'[s] = "RUNNING" => status[s] = "RUNNING"
         /\ \A k \in 1..Len(sent') :
               sent'[k].task = t => sent'[k].status = "CANCELLED"]_vars

\* The chains that have started and not yet returned.
ActiveChains == {n \in TaskNums : chains[n].pc \notin {"idle", "done"}}

\* C40: at most one chain is in flight at any time, and no step taken
\* while a chain is in flight replaces the current task or starts another
\* chain.
C40_OneChainAtATime ==
    [][/\ Cardinality(ActiveChains) <= 1
       /\ ActiveChains # {} =>
             /\ currentTask' = currentTask
             /\ \A n \in TaskNums :
                   chains[n].pc = "idle" => chains'[n].pc = "idle"]_vars

====
